---- MODULE Spec2Model ----
(***************************************************************************)
(* Verification model of the driving simulation's core:                    *)
(*   - RoadManager.updateChunks   (src/src/systems/road/RoadManager.ts)    *)
(*   - RoadsideProps.generate and dispose (same file, lines 348-1061)      *)
(*   - Engine, the fixed-step loop (src/src/core/Engine.ts)                *)
(*   - Transmission, both variants (src/src/systems/vehicle/Transmission.ts)*)
(*   - FuelSystem and EngineSimulation (src/unnamed/part_000, part_001)    *)
(*   - VehicleController, both variants                                    *)
(*                                (src/src/systems/hud/SettingsManager.ts) *)
(*   - InputManager and the callbacks of main.ts                           *)
(*                        (src/src/core/InputManager.ts, src/src/main.ts)  *)
(* Each component has its own specification (SpecRoad, SpecProps,          *)
(* SpecEngine, SpecScheduler, SpecTransmission, SpecFuel, SpecEngineSim,   *)
(* SpecTorqueCurve, SpecInput); the variables of the other components stay *)
(* at their constructed values. SpecVehicle composes the controller with   *)
(* its transmission, engine simulation and fuel system. SpecScheduler is   *)
(* the Engine with start() and stop() called from inside callbacks too;    *)
(* SpecTransmissionStepped is SpecTransmission with updates that keep      *)
(* coming.                                                                 *)
(*                                                                         *)
(* Time in the Engine is counted in units of 1/120 s, so that              *)
(* PHYSICS_TIMESTEP = 1/60 s = 2 units and the 0.1 s clamp = 12 units; the *)
(* arithmetic is exact (the doubles of the code differ from it by rounding *)
(* only, see AlphaInUnitInterval).                                         *)
(***************************************************************************)
EXTENDS Integers, Sequences, FiniteSets

VARIABLES
    \* ---- RoadManager ----
    chunks,               \* keys of RoadManager.chunks
    sceneMeshes,          \* chunk indices whose mesh is in world.scene
    currentChunkIndex,    \* RoadManager.currentChunkIndex
    closestSample,        \* sample index i of the last findClosestT (bestT = i/100)
    lastRemoved,          \* chunk indices disposed by the last updateChunks
    lastLoaded,           \* chunk indices constructed by the last updateChunks
    physicsColliders,     \* the prop colliders that are in the physics world
    chunkColliders,       \* RoadsideProps.colliders of each loaded chunk
    worldPassed,          \* whether the chunks are constructed with a world
    \* ---- Engine ----
    running,              \* Engine.running
    accumulator,          \* Engine.accumulator, in units of 1/120 s
    frameId,              \* Engine.frameId: 0, or 1 for a request handle
    rafQueue,             \* number of requestAnimationFrame requests pending
    frameIdLive,          \* the request frameId names is still pending
    fixedUpdateCallbacks, \* Engine.fixedUpdateCallbacks
    renderCallbacks,      \* Engine.renderCallbacks
    pc,                   \* position inside loop(): idle, while, fixed, render
    cbIdx,                \* position of the for..of iterator
    steps,                \* local `steps` of loop()
    frameDt,              \* local `frameDt` of loop(), after the clamp
    alpha,                \* local `alpha` of loop(), as <<numerator, denominator>>
    inCb,                 \* a callback of the loop is executing
    trace,                \* callback invocations of the current frame
    done,                 \* the frame described by trace has run to its end
    accBefore,            \* accumulator when the current frame began
    frameRaw,             \* (now - lastTime) / 1000 of the frame, before the clamp
    fixedRegLog,          \* onFixedUpdate calls, in the order they were made
    renderRegLog,         \* onRender calls, in the order they were made
    \* ---- Transmission ----
    variant,              \* which Transmission class the vehicle uses
    trans,                \* its fields: currentGear, shiftTimer, shifting
    tOp,                  \* the last operation called on it
    tArg,                 \* the arguments of that call
    tPrev,                \* its fields before that call
    sinceShift,           \* the sum of the dt of its updates since the last shift started
    \* ---- FuelSystem ----
    currentFuel,          \* FuelSystem.currentFuel
    fOp,                  \* the last operation called on it
    fArg,                 \* the arguments of that call
    fPrev,                \* currentFuel before that call
    \* ---- EngineSimulation ----
    simVariant,           \* which of the two EngineSimulation sources is built
    simRpm,               \* EngineSimulation.rpm
    simRunning,           \* EngineSimulation.running
    sOp,                  \* the last operation called on it
    sArg,                 \* the arguments of that call
    sPrev,                \* rpm and running before that call
    sTorque,              \* the value update returned
    torqueCurve,          \* config.torqueCurve
    qRpm,                 \* the argument of the last lookupTorque
    qTorque,              \* the value it returned
    \* ---- VehicleController ----
    currentSteering,      \* VehicleController.currentSteering
    braking,              \* VehicleController.braking (manual variant)
    inReverse,            \* VehicleController.inReverse (manual variant)
    prevPose,             \* prevPosition and prevQuaternion (manual variant)
    currPose,             \* currPosition and currQuaternion (manual variant)
    wheelBrake,           \* the brake force set on the four wheels
    wheelEngineForce,     \* the engine force set on wheels 0..3, at index i + 1
    vOp,                  \* the last operation called on the controller
    vStep,                \* what that call read and computed
    \* ---- RoadsideProps ----
    generated,            \* what the last RoadsideProps constructor generated
    genIndex,             \* the chunk index it was constructed for
    trackedIndex,         \* a chunk index, fixed for the behaviour
    firstGenerated,       \* what the first construction for trackedIndex generated
    othersBetween,        \* other chunks were generated since that construction
    rngAfter,             \* `rng` when the last construction returned
    \* ---- Engine, with the calls of loop() that are in progress ----
    eng,                  \* Engine.running, Engine.accumulator, Engine.frameId
    calls,                \* the executing calls of loop(), the innermost last
    requests,             \* frame requests pending for the next host frame
    batch,                \* frame requests the current host frame has yet to run
    bodies,               \* loop bodies the current host frame has begun
    stopAge,              \* whether stop() was the last of start/stop, and when
    lateCallback,         \* a callback began in a host frame after that stop()
    lag,                  \* clamped frame time minus simulated time since start()
    \* ---- InputManager and the fixed-update callback of main.ts ----
    keys,                 \* InputManager.keys
    justPressed,          \* InputManager.justPressed
    held,                 \* the keys that are physically down
    frame,                \* where the frame loop is, and the fixed steps left
    press                 \* the last key-down, and the inputs the steps since saw
                          \* while it was the only one

roadVars == <<chunks, sceneMeshes, currentChunkIndex,
              closestSample, lastRemoved, lastLoaded,
              physicsColliders, chunkColliders, worldPassed>>
engineVars == <<running, accumulator, frameId, rafQueue, frameIdLive,
                fixedUpdateCallbacks, renderCallbacks, pc, cbIdx, steps,
                frameDt, alpha, inCb, trace, done, accBefore,
                frameRaw, fixedRegLog, renderRegLog>>
transVars == <<variant, trans, tOp, tArg, tPrev, sinceShift>>
fuelVars == <<currentFuel, fOp, fArg, fPrev>>
simVars == <<simVariant, simRpm, simRunning, sOp, sArg, sPrev, sTorque>>
curveVars == <<torqueCurve, qRpm, qTorque>>
ctrlVars == <<currentSteering, braking, inReverse, prevPose, currPose,
              wheelBrake, wheelEngineForce, vOp, vStep>>
vehicleVars == <<fuelVars, simVars, curveVars, ctrlVars>>
propVars == <<generated, genIndex, trackedIndex, firstGenerated, othersBetween, rngAfter>>
schedVars == <<eng, calls, requests, batch, bodies, stopAge, lateCallback, lag>>
inputVars == <<keys, justPressed, held, frame, press>>
hostVars == <<schedVars, inputVars>>
vars == <<roadVars, engineVars, transVars, vehicleVars, propVars, hostVars>>

Min(a, b) == IF a <= b THEN a ELSE b

\* F applied to the value of v, which is computed once
With(v, F(_)) == CHOOSE r \in {F(x) : x \in {v}} : TRUE

(***************************************************************************)
(*                             RoadsideProps                               *)
(* The variant with physics colliders (RoadManager.ts:348-1061), which is  *)
(* the one RoadChunk constructs. The curve parameter t is in thousandths,  *)
(* a chunk being 1000 / CHUNK_COUNT of them long; a value of random() is   *)
(* taken in thousandths, rounded down. Of generate, the loops that create  *)
(* colliders are modelled (natural props, buildings, telephone poles); the *)
(* mountains draw from the stream after them and the mile markers do not   *)
(* draw from it.                                                           *)
(***************************************************************************)
CHUNK_COUNT == 20
\* `rng = (rng * 16807 + 0) % 2147483647`
LehmerMultiplier == 16807
LehmerModulus == 2147483647
\* Math.floor(chunkLength * PROP_DENSITY), which depends on the spline's length
NaturalCount == 2
\* MIN_ROAD_OFFSET, MAX_ROAD_OFFSET, BUILDING_MIN_OFFSET, BUILDING_MAX_OFFSET
MIN_ROAD_OFFSET == 8
MAX_ROAD_OFFSET == 50
BUILDING_MIN_OFFSET == 15
BUILDING_MAX_OFFSET == 35
\* `poleInterval = 0.008`, in thousandths
PoleInterval == 8

ChunkLength == 1000 \div CHUNK_COUNT

\* rng * 16807 % 2147483647 without a product above 2^31 (Schrage: with
\* q = m div a and r = m mod a, a * x mod m = a * (x mod q) - r * (x div q),
\* plus m if that is negative)
NextRng(rng) ==
    LET q == LehmerModulus \div LehmerMultiplier
        r == LehmerModulus % LehmerMultiplier
        v == LehmerMultiplier * (rng % q) - r * (rng \div q)
    IN  IF v < 0 THEN v + LehmerModulus ELSE v

\* `rng / 2147483647`, in thousandths
RandomOf(rng) == rng \div ((LehmerModulus \div 1000) + 1)

\* rng after k calls of random()
RECURSIVE Draws(_, _)
Draws(rng, k) ==
    IF k = 0 THEN rng ELSE With(NextRng(rng), LAMBDA next : Draws(next, k - 1))

PropSeedShared(index, shared) == shared

\* `seed = Math.floor(tStart * 10000)` with tStart = index / CHUNK_COUNT; the
\* rng a previous construction left is not read
PropSeed(index, shared) == (index * 10000) \div CHUNK_COUNT

\* the natural prop chosen by `roll`
NaturalType(roll) ==
    IF roll < 200 THEN "cactus"
    ELSE IF roll < 350 THEN "rock"
    ELSE IF roll < 500 THEN "bush"
    ELSE IF roll < 700 THEN "deadTree"
    ELSE IF roll < 850 THEN "joshuaTree"
    ELSE "tumbleweed"

\* the building chosen by `buildRoll`
BuildingType(roll) ==
    IF roll < 300 THEN "gasStation"
    ELSE IF roll < 550 THEN "motel"
    ELSE IF roll < 750 THEN "diner"
    ELSE "abandonedHouse"

\* rng after createCactus, createRock, ... createAbandonedHouse: the calls of
\* random() each of them makes (createTumbleweed makes none)
AfterCreate(type, rng) ==
    LET s1 == NextRng(rng)
        s2 == NextRng(s1)
    IN  CASE type = "cactus" ->
                LET a == IF RandomOf(s2) > 300 THEN Draws(s2, 2) ELSE s2
                    b == NextRng(a)
                IN  IF RandomOf(b) > 500 THEN Draws(b, 2) ELSE b
          [] type = "rock" -> Draws(rng, 7)
          [] type = "bush" -> Draws(s1, 6 * (2 + ((RandomOf(s1) * 3) \div 1000)))
          [] type = "deadTree" -> Draws(s2, 5 * (3 + ((RandomOf(s2) * 3) \div 1000)))
          [] type = "joshuaTree" -> Draws(s2, 4 * (2 + ((RandomOf(s2) * 3) \div 1000)) - 1)
          [] type = "tumbleweed" -> rng
          [] type = "gasStation" -> s1
          [] type = "motel" -> Draws(s1, 3 + (3 + ((RandomOf(s1) * 4) \div 1000)))
          [] type = "diner" -> s1
          [] type = "abandonedHouse" -> Draws(rng, 9)

\* userData.colliderSize: every prop but the tumbleweed has one; it depends
\* on draws of the constructor (height, scale, room count or width) where given
ColliderSize(type, rng) ==
    IF type = "tumbleweed" THEN <<>>
    ELSE IF type \in {"bush", "gasStation", "diner"} THEN <<type>>
    ELSE IF type = "motel" THEN <<type, 3 + ((RandomOf(NextRng(rng)) * 4) \div 1000)>>
    ELSE IF type = "abandonedHouse" THEN <<type, RandomOf(Draws(rng, 4)), RandomOf(Draws(rng, 5))>>
    ELSE <<type, RandomOf(NextRng(rng))>>

\* one pass of a prop loop's body from the stream state rng: the prop placed
\* at the curve parameter t, side * offset across the road, and the stream
\* state after it
PlaceProp(t, rng, isBuilding) ==
    LET s1 == NextRng(rng)
        s2 == NextRng(s1)
        s3 == NextRng(s2)
        side == IF RandomOf(s1) > 500 THEN 1 ELSE -1
        offset == IF isBuilding
                  THEN BUILDING_MIN_OFFSET
                       + ((RandomOf(s2) * (BUILDING_MAX_OFFSET - BUILDING_MIN_OFFSET)) \div 1000)
                  ELSE MIN_ROAD_OFFSET
                       + ((RandomOf(s2) * (MAX_ROAD_OFFSET - MIN_ROAD_OFFSET)) \div 1000)
        kind == IF isBuilding THEN BuildingType(RandomOf(s3)) ELSE NaturalType(RandomOf(s3))
    IN  With(NextRng(AfterCreate(kind, s3)),
             LAMBDA s5 : [prop |-> [position |-> <<Min(t, 1000), side * offset>>,
                                    type |-> kind,
                                    collider |-> ColliderSize(kind, s3),
                                    rotation |-> RandomOf(s5)],
                          rng |-> s5])

\* the natural props loop from pass i on: `t = tStart + (tEnd - tStart) * random()`,
\* then the body
RECURSIVE NaturalProps(_, _, _)
NaturalProps(tStart, rng, i) ==
    IF i >= NaturalCount THEN [props |-> <<>>, rng |-> rng]
    ELSE With(NextRng(rng), LAMBDA s1 :
         With(PlaceProp(tStart + ((ChunkLength * RandomOf(s1)) \div 1000), s1, FALSE),
              LAMBDA placed :
         With(NaturalProps(tStart, placed.rng, i + 1), LAMBDA rest :
              [props |-> <<placed.prop>> \o rest.props, rng |-> rest.rng])))

\* the buildings loop from the parameter t on: the body, then
\* `t += buildingInterval + random() * 0.02`
RECURSIVE Buildings(_, _, _, _)
Buildings(tEnd, buildingInterval, t, rng) ==
    IF ~(t < tEnd) \/ t > 1000 THEN [props |-> <<>>, rng |-> rng]
    ELSE With(PlaceProp(t, rng, TRUE), LAMBDA placed :
         With(NextRng(placed.rng), LAMBDA s1 :
         With(t + buildingInterval + ((RandomOf(s1) * 20) \div 1000), LAMBDA tNext :
         With(Buildings(tEnd, buildingInterval, tNext, s1), LAMBDA rest :
              [props |-> <<placed.prop>> \o rest.props, rng |-> rest.rng]))))

\* the telephone poles, each with a collider
Poles(tStart, tEnd) ==
    [j \in 1..Cardinality({k \in 0..ChunkLength : tStart + k * PoleInterval < tEnd
                                                  /\ tStart + k * PoleInterval <= 1000})
        |-> [type |-> "telephonePole", position |-> <<tStart + (j - 1) * PoleInterval, -7>>,
             rotation |-> 0, collider |-> <<"telephonePole">>]]

\* the props of `props` that have a collider, in creation order
WithCollider(props) == SelectSeq(props, LAMBDA pr : pr.collider # <<>>)

\* new RoadsideProps(spline, tStart, tEnd, world).generate for the chunk
\* `index`, the stream starting from `seed`
\* the buildings of the chunk from tStart, the stream being at rng after the
\* natural props: `buildingInterval = 0.015 + random() * 0.01`, the first
\* building at `tStart + random() * buildingInterval`
BuildingsOf(tStart, rng) ==
    With(NextRng(rng), LAMBDA s1 :
    With(15 + ((RandomOf(s1) * 10) \div 1000), LAMBDA buildingInterval :
    With(NextRng(s1), LAMBDA s2 :
         Buildings(tStart + ChunkLength, buildingInterval,
                   tStart + ((RandomOf(s2) * buildingInterval) \div 1000), s2))))

generate(index, seed) ==
    With(index * ChunkLength, LAMBDA tStart :
    With(NaturalProps(tStart, seed, 0), LAMBDA natural :
    With(BuildingsOf(tStart, natural.rng), LAMBDA buildings :
    With(natural.props \o buildings.props \o Poles(tStart, tStart + ChunkLength),
         LAMBDA props :
         [props |-> props, colliders |-> WithCollider(props), rng |-> buildings.rng]))))

(***************************************************************************)
(*                              RoadManager                                *)
(***************************************************************************)
VISIBLE_AHEAD == 4
VISIBLE_BEHIND == 2
\* `steps` of findClosestT: the samples are t = i/100, i = 0..100
ClosestSteps == 100

\* Samples i for which the double (i/100)/(1/20) is just below the integer
\* i/5, so that Math.floor gives one less than the exact quotient:
\* 0.15/0.05, 0.3/0.05, 0.35/0.05, 0.6/0.05, 0.7/0.05 and 0.95/0.05.
FloorShortSamples == {15, 30, 35, 60, 70, 95}

\* Math.floor(closestT / chunkSize) with closestT = i/100, chunkSize = 1/20
ChunkIndexOf(i) ==
    IF i \in FloorShortSamples THEN (i \div 5) - 1 ELSE i \div 5

VisibleSetOffByOne(c) ==
    {i \in (c - VISIBLE_BEHIND)..(c + VISIBLE_AHEAD) : i >= 0 /\ i <= CHUNK_COUNT}

\* the loop that fills visibleSet
VisibleSet(c) ==
    {i \in (c - VISIBLE_BEHIND)..(c + VISIBLE_AHEAD) : i >= 0 /\ i < CHUNK_COUNT}

\* first loop of updateChunks: the chunks that are removed and disposed
ChunksToRemove(loaded, visible) == {index \in loaded : index \notin visible}

ChunksToLoadAll(loaded, visible) == visible

\* second loop of updateChunks: the chunks that are constructed
ChunksToLoad(loaded, visible) == {index \in visible : index \notin loaded}

\* Number of colliders the RoadsideProps of each chunk creates when it has a
\* world, tabulated
ColliderCounts ==
    [index \in 0..(CHUNK_COUNT - 1) |-> Len(generate(index, PropSeed(index, 1)).colliders)]

\* RoadsideProps.colliders after the constructor: the handles addPropCollider
\* pushed, none without a world (`if (!this.world) return`)
ChunkHandles(index, hasWorld) ==
    IF ~hasWorld THEN {}
    ELSE {<<index, k>> : k \in 1..(IF index \in DOMAIN ColliderCounts
                                  THEN ColliderCounts[index]
                                  ELSE Len(generate(index, PropSeed(index, 1)).colliders))}

Props_disposeNoRemove(physics, colliders, hasWorld) == physics

\* the colliders left in the physics world by RoadsideProps.dispose() of
\* props that hold `colliders`
Props_dispose(physics, colliders, hasWorld) ==
    IF hasWorld THEN physics \ colliders ELSE physics

\* updateChunks(vehiclePosition), the closest sample of the position being i
UpdateChunksTo(i) ==
    LET c == ChunkIndexOf(i)
        visibleSet == VisibleSet(c)
        removed == ChunksToRemove(chunks, visibleSet)
        kept == chunks \ removed
        loaded == ChunksToLoad(kept, visibleSet)
    IN /\ closestSample' = i
       /\ currentChunkIndex' = c
       /\ chunks' = kept \cup loaded
       /\ sceneMeshes' = (sceneMeshes \ removed) \cup loaded
       /\ lastRemoved' = removed
       /\ lastLoaded' = loaded
       /\ physicsColliders' =
             Props_dispose(physicsColliders,
                           UNION {chunkColliders[x] : x \in removed}, worldPassed)
             \cup UNION {ChunkHandles(x, worldPassed) : x \in loaded}
       /\ chunkColliders' =
             [x \in kept \cup loaded |->
                 IF x \in loaded THEN ChunkHandles(x, worldPassed) ELSE chunkColliders[x]]
       /\ UNCHANGED worldPassed

\* new RoadManager(world, config): updateChunks(new THREE.Vector3(0, 0, 0)) on
\* an empty map; which sample is closest to the origin depends on the waypoints.
\* RoadChunk's constructor takes a world (RoadChunk.ts:16-21) and updateChunks
\* calls it without one (RoadManager.ts:103): w tells whether the props get it.
RoadConstructed(i, w) ==
    /\ closestSample = i
    /\ currentChunkIndex = ChunkIndexOf(closestSample)
    /\ chunks = ChunksToLoad({}, VisibleSet(currentChunkIndex))
    /\ sceneMeshes = chunks
    /\ lastRemoved = {}
    /\ lastLoaded = chunks
    /\ worldPassed = w
    /\ chunkColliders = [x \in chunks |-> ChunkHandles(x, w)]
    /\ physicsColliders = UNION {chunkColliders[x] : x \in chunks}

\* roadManager.updateChunks(vehicle.getPosition()): the vehicle may be anywhere,
\* so any sample i of findClosestT may be the closest one
UpdateChunks ==
    /\ \E i \in 0..ClosestSteps : UpdateChunksTo(i)
    /\ UNCHANGED <<engineVars, transVars, vehicleVars, propVars, hostVars>>

(***************************************************************************)
(*                                 Engine                                  *)
(***************************************************************************)
\* 1/60 s in units of 1/120 s
PHYSICS_TIMESTEP == 2
MAX_SUBSTEPS == 5
\* the clamp `if (frameDt > 0.1) frameDt = 0.1`, 0.1 s in units of 1/120 s
MaxFrameDt == 12

\* ---- bounds of the model ----
MaxRegistrations == 2   \* registrations per callback list
MaxAccumulator == 3     \* a frame begins only while accumulator <= this
MaxPending == 2         \* frame requests pending at a time
\* (now - lastTime) / 1000 seen by a frame, in units of 1/120 s; 30 = 250 ms
FrameDeltas == {0, 1, 2, MaxFrameDt, 30}

\* the callback functions that get registered
Callbacks == {1, 2}

InitEngine ==
    /\ running = FALSE
    /\ accumulator = 0
    /\ frameId = 0
    /\ rafQueue = 0
    /\ frameIdLive = FALSE
    /\ fixedUpdateCallbacks = <<>>
    /\ renderCallbacks = <<>>
    /\ pc = "idle"
    /\ cbIdx = 0
    /\ steps = 0
    /\ frameDt = 0
    /\ alpha = <<0, PHYSICS_TIMESTEP>>
    /\ inCb = FALSE
    /\ trace = <<>>
    /\ done = FALSE
    /\ accBefore = 0
    /\ frameRaw = 0
    /\ fixedRegLog = <<>>
    /\ renderRegLog = <<>>

\* A call into the Engine comes from an event handler between two frames or
\* from a callback that loop() is executing: JavaScript runs one at a time.
CanCall == pc = "idle" \/ inCb

unshift(list, c) == <<c>> \o list

\* Array.prototype.push of onFixedUpdate / onRender
push(list, c) == Append(list, c)

\* onFixedUpdate(callback)
OnFixedUpdate ==
    /\ CanCall
    /\ Len(fixedUpdateCallbacks) < MaxRegistrations
    /\ \E c \in Callbacks :
          /\ fixedUpdateCallbacks' = push(fixedUpdateCallbacks, c)
          /\ fixedRegLog' = Append(fixedRegLog, c)
    /\ done' = FALSE
    /\ UNCHANGED <<running, accumulator, frameId, rafQueue, frameIdLive,
                   renderCallbacks, pc, cbIdx, steps, frameDt, alpha, inCb,
                   trace, accBefore, frameRaw, renderRegLog>>
    /\ UNCHANGED <<roadVars, transVars, vehicleVars, propVars, hostVars>>

\* onRender(callback)
OnRender ==
    /\ CanCall
    /\ Len(renderCallbacks) < MaxRegistrations
    /\ \E c \in Callbacks :
          /\ renderCallbacks' = push(renderCallbacks, c)
          /\ renderRegLog' = Append(renderRegLog, c)
    /\ done' = FALSE
    /\ UNCHANGED <<running, accumulator, frameId, rafQueue, frameIdLive,
                   fixedUpdateCallbacks, pc, cbIdx, steps, frameDt, alpha, inCb,
                   trace, accBefore, frameRaw, fixedRegLog>>
    /\ UNCHANGED <<roadVars, transVars, vehicleVars, propVars, hostVars>>

ClampFrameDtOff(d) == d

\* if (frameDt > 0.1) frameDt = 0.1
ClampFrameDt(d) == IF d > MaxFrameDt THEN MaxFrameDt ELSE d

\* loop() up to `let steps = 0`, for an accumulator acc and an elapsed time raw
BeginFrame(acc, raw) ==
    /\ frameRaw' = raw
    /\ frameDt' = ClampFrameDt(raw)
    /\ accBefore' = acc
    /\ accumulator' = acc + ClampFrameDt(raw)
    /\ steps' = 0
    /\ cbIdx' = 0
    /\ alpha' = <<0, PHYSICS_TIMESTEP>>
    /\ trace' = <<>>
    /\ inCb' = FALSE
    /\ done' = FALSE
    /\ pc' = "while"

\* start() from an event handler: it sets lastTime to now and calls loop()
\* at once, which therefore sees an elapsed time of 0. (start() on a running
\* engine returns without changing anything, from anywhere.)
Start ==
    /\ pc = "idle"
    /\ ~running
    /\ rafQueue < MaxPending
    /\ running' = TRUE
    /\ BeginFrame(0, 0)
    /\ UNCHANGED <<frameId, rafQueue, frameIdLive, fixedUpdateCallbacks,
                   renderCallbacks, fixedRegLog, renderRegLog>>
    /\ UNCHANGED <<roadVars, transVars, vehicleVars, propVars, hostVars>>

\* stop(): cancelAnimationFrame(frameId) removes the request frameId names if
\* the host has not run it yet
Stop ==
    /\ CanCall
    /\ running' = FALSE
    /\ IF frameId # 0
          THEN /\ rafQueue' = IF frameIdLive THEN rafQueue - 1 ELSE rafQueue
               /\ frameIdLive' = FALSE
               /\ frameId' = 0
          ELSE UNCHANGED <<rafQueue, frameIdLive, frameId>>
    /\ done' = FALSE
    /\ UNCHANGED <<accumulator, fixedUpdateCallbacks, renderCallbacks, pc, cbIdx,
                   steps, frameDt, alpha, inCb, trace, accBefore, frameRaw,
                   fixedRegLog, renderRegLog>>
    /\ UNCHANGED <<roadVars, transVars, vehicleVars, propVars, hostVars>>

\* The host runs a pending frame request, the oldest first: loop() up to the
\* while loop. The request frameId names is the youngest one.
LoopEnter ==
    /\ pc = "idle"
    /\ rafQueue > 0
    /\ accumulator <= MaxAccumulator
    /\ rafQueue' = rafQueue - 1
    /\ frameIdLive' = IF rafQueue = 1 THEN FALSE ELSE frameIdLive
    /\ IF ~running
          THEN /\ done' = FALSE
               /\ UNCHANGED <<accumulator, pc, cbIdx, steps, frameDt, alpha, inCb,
                              trace, accBefore, frameRaw>>
          ELSE \E d \in FrameDeltas : BeginFrame(accumulator, d)
    /\ UNCHANGED <<running, frameId, fixedUpdateCallbacks, renderCallbacks,
                   fixedRegLog, renderRegLog>>
    /\ UNCHANGED <<roadVars, transVars, vehicleVars, propVars, hostVars>>

FixedLoopContinuesStrict(acc, n) == acc > PHYSICS_TIMESTEP /\ n < MAX_SUBSTEPS

\* while (this.accumulator >= PHYSICS_TIMESTEP && steps < MAX_SUBSTEPS)
FixedLoopContinues(acc, n) == acc >= PHYSICS_TIMESTEP /\ n < MAX_SUBSTEPS

\* the test of the while loop; when it fails, alpha is computed
WhileTest ==
    /\ pc = "while"
    /\ IF FixedLoopContinues(accumulator, steps)
          THEN /\ pc' = "fixed"
               /\ UNCHANGED alpha
          ELSE /\ pc' = "render"
               /\ alpha' = <<accumulator, PHYSICS_TIMESTEP>>
    /\ cbIdx' = 1
    /\ inCb' = FALSE
    /\ UNCHANGED <<running, accumulator, frameId, rafQueue, frameIdLive,
                   fixedUpdateCallbacks, renderCallbacks, steps, frameDt, trace,
                   done, accBefore, frameRaw, fixedRegLog, renderRegLog>>
    /\ UNCHANGED <<roadVars, transVars, vehicleVars, propVars, hostVars>>

IteratorDoneEarly(idx, list) == idx >= Len(list)

\* a for..of over an array ends when the index has passed the array's current
\* length (elements pushed during the iteration are visited)
IteratorDone(idx, list) == idx > Len(list)

\* one turn of `for (const cb of this.fixedUpdateCallbacks) cb(PHYSICS_TIMESTEP)`,
\* and after the last one `this.accumulator -= PHYSICS_TIMESTEP; steps++`
FixedStep ==
    /\ pc = "fixed"
    /\ IF ~IteratorDone(cbIdx, fixedUpdateCallbacks)
          THEN /\ trace' = Append(trace, [kind |-> "fixed",
                                          cb |-> fixedUpdateCallbacks[cbIdx],
                                          round |-> steps,
                                          dt |-> PHYSICS_TIMESTEP])
               /\ cbIdx' = cbIdx + 1
               /\ inCb' = TRUE
               /\ UNCHANGED <<accumulator, steps, pc>>
          ELSE /\ accumulator' = accumulator - PHYSICS_TIMESTEP
               /\ steps' = steps + 1
               /\ pc' = "while"
               /\ inCb' = FALSE
               /\ UNCHANGED <<trace, cbIdx>>
    /\ UNCHANGED <<running, frameId, rafQueue, frameIdLive, fixedUpdateCallbacks,
                   renderCallbacks, frameDt, alpha, done, accBefore, frameRaw,
                   fixedRegLog, renderRegLog>>
    /\ UNCHANGED <<roadVars, transVars, vehicleVars, propVars, hostVars>>

\* one turn of `for (const cb of this.renderCallbacks) cb(frameDt, alpha)`, and
\* after the last one `this.frameId = requestAnimationFrame(this.loop)`
RenderStep ==
    /\ pc = "render"
    /\ IF ~IteratorDone(cbIdx, renderCallbacks)
          THEN /\ trace' = Append(trace, [kind |-> "render",
                                          cb |-> renderCallbacks[cbIdx],
                                          dt |-> frameDt,
                                          alpha |-> alpha])
               /\ cbIdx' = cbIdx + 1
               /\ inCb' = TRUE
               /\ UNCHANGED <<frameId, rafQueue, frameIdLive, pc, done>>
          ELSE /\ frameId' = 1
               /\ rafQueue' = rafQueue + 1
               /\ frameIdLive' = TRUE
               /\ pc' = "idle"
               /\ inCb' = FALSE
               /\ done' = TRUE
               /\ UNCHANGED <<trace, cbIdx>>
    /\ UNCHANGED <<running, accumulator, fixedUpdateCallbacks, renderCallbacks,
                   steps, frameDt, alpha, accBefore, frameRaw, fixedRegLog,
                   renderRegLog>>
    /\ UNCHANGED <<roadVars, transVars, vehicleVars, propVars, hostVars>>


(***************************************************************************)
(*                    Engine: start() and stop() anywhere                  *)
(* The frame loop once more, with start() and stop() callable from an      *)
(* event handler between two host frames and from inside a callback, so    *)
(* that start() can call loop() while a call of loop() is in progress.     *)
(* One fixed-update and one render callback are registered. A host frame   *)
(* runs the requests that were pending when it began, the oldest first; a  *)
(* request is TRUE when it is the one Engine.frameId names.                *)
(***************************************************************************)
MaxDepth == 2           \* calls of loop() in progress at a time

SchedulerConstructed ==
    /\ eng = [running |-> FALSE, accumulator |-> 0, frameId |-> 0]
    /\ calls = <<>>
    /\ requests = <<>>
    /\ batch = <<>>
    /\ bodies = 0
    /\ stopAge = "none"
    /\ lateCallback = FALSE
    /\ lag = 0

\* the innermost call of loop()
Top == calls[Len(calls)]

\* that call with its position and its local `steps` changed
Resume(at, n) == [calls EXCEPT ![Len(calls)] = [@ EXCEPT !.pc = at, !.steps = n]]

InCallback == calls # <<>> /\ Top.pc \in {"fixedCb", "renderCb"}

\* JavaScript runs one thing at a time: a call into the Engine comes from an
\* event handler between two host frames or from the callback being executed
CanCallEngine == (calls = <<>> /\ batch = <<>>) \/ InCallback

\* requests none of which frameId names any more
Unnamed(q) == [i \in DOMAIN q |-> FALSE]

\* cancelAnimationFrame(frameId) takes the request frameId names out of q
CancelNamed(q) == SelectSeq(q, LAMBDA named : ~named)

\* requestAnimationFrame(this.loop), whose handle goes to this.frameId
RequestFrame(q) == Append(Unnamed(q), TRUE)

\* loop() from `const now` to `let steps = 0`, after an elapsed time raw
EnterBody(e, raw) ==
    /\ eng' = [e EXCEPT !.accumulator = @ + ClampFrameDt(raw)]
    /\ calls' = Append(calls, [pc |-> "while", steps |-> 0,
                               accBefore |-> e.accumulator,
                               frameDt |-> ClampFrameDt(raw)])

\* the fields start() assigns before it calls loop()
Started(e) == [e EXCEPT !.running = TRUE, !.accumulator = 0]

\* start(): it returns at once on a running engine; otherwise it sets
\* lastTime to now and calls loop(), which sees an elapsed time of 0
SchedStart ==
    /\ CanCallEngine
    /\ ~eng.running
    /\ Len(calls) < MaxDepth
    /\ Len(calls) + Len(requests) + Len(batch) < MaxPending
    /\ EnterBody(Started(eng), 0)
    /\ stopAge' = "none"
    /\ lag' = 0
    /\ UNCHANGED <<requests, batch, bodies, lateCallback>>
    /\ UNCHANGED <<roadVars, engineVars, transVars, vehicleVars, propVars, inputVars>>

\* stop()
SchedStop ==
    /\ CanCallEngine
    /\ eng' = [eng EXCEPT !.running = FALSE, !.frameId = 0]
    /\ requests' = IF eng.frameId # 0 THEN CancelNamed(requests) ELSE requests
    /\ batch' = IF eng.frameId # 0 THEN CancelNamed(batch) ELSE batch
    /\ stopAge' = "now"
    /\ UNCHANGED <<calls, bodies, lateCallback, lag>>
    /\ UNCHANGED <<roadVars, engineVars, transVars, vehicleVars, propVars, inputVars>>

\* the host begins a frame: it will run the requests pending now
HostFrame ==
    /\ calls = <<>>
    /\ batch = <<>>
    /\ requests # <<>>
    /\ eng.accumulator <= MaxAccumulator
    /\ batch' = requests
    /\ requests' = <<>>
    /\ bodies' = 0
    /\ stopAge' = IF stopAge = "now" THEN "earlier" ELSE stopAge
    /\ UNCHANGED <<eng, calls, lateCallback, lag>>
    /\ UNCHANGED <<roadVars, engineVars, transVars, vehicleVars, propVars, inputVars>>

\* the host runs the next request of the frame: loop() up to the while loop
RunRequest ==
    /\ calls = <<>>
    /\ batch # <<>>
    /\ batch' = Tail(batch)
    /\ IF ~eng.running
          THEN UNCHANGED <<eng, calls, bodies, lag>>
          ELSE \E d \in FrameDeltas :
                  /\ EnterBody(eng, d)
                  /\ bodies' = bodies + 1
                  /\ lag' = lag + ClampFrameDt(d)
    /\ UNCHANGED <<requests, stopAge, lateCallback>>
    /\ UNCHANGED <<roadVars, engineVars, transVars, vehicleVars, propVars, inputVars>>

\* the test of the while loop: a round calls the fixed-update callback, and
\* after the last round the render callback is called
LoopTest ==
    /\ calls # <<>>
    /\ Top.pc = "while"
    /\ calls' = Resume(IF FixedLoopContinues(eng.accumulator, Top.steps)
                          THEN "fixedCb" ELSE "renderCb", Top.steps)
    /\ lateCallback' = (lateCallback \/ stopAge = "earlier")
    /\ UNCHANGED <<eng, requests, batch, bodies, stopAge, lag>>
    /\ UNCHANGED <<roadVars, engineVars, transVars, vehicleVars, propVars, inputVars>>

\* the fixed-update callback returns: `this.accumulator -= PHYSICS_TIMESTEP;
\* steps++`
FixedReturn ==
    /\ calls # <<>>
    /\ Top.pc = "fixedCb"
    /\ eng' = [eng EXCEPT !.accumulator = @ - PHYSICS_TIMESTEP]
    /\ calls' = Resume("while", Top.steps + 1)
    /\ lag' = lag - PHYSICS_TIMESTEP
    /\ UNCHANGED <<requests, batch, bodies, stopAge, lateCallback>>
    /\ UNCHANGED <<roadVars, engineVars, transVars, vehicleVars, propVars, inputVars>>

\* the render callback returns
RenderReturn ==
    /\ calls # <<>>
    /\ Top.pc = "renderCb"
    /\ calls' = Resume("request", Top.steps)
    /\ UNCHANGED <<eng, requests, batch, bodies, stopAge, lateCallback, lag>>
    /\ UNCHANGED <<roadVars, engineVars, transVars, vehicleVars, propVars, inputVars>>

\* `this.frameId = requestAnimationFrame(this.loop)`, and loop() returns
LoopRequest ==
    /\ calls # <<>>
    /\ Top.pc = "request"
    /\ eng' = [eng EXCEPT !.frameId = 1]
    /\ requests' = RequestFrame(requests)
    /\ batch' = Unnamed(batch)
    /\ calls' = SubSeq(calls, 1, Len(calls) - 1)
    /\ UNCHANGED <<bodies, stopAge, lateCallback, lag>>
    /\ UNCHANGED <<roadVars, engineVars, transVars, vehicleVars, propVars, inputVars>>

(***************************************************************************)
(*                             InputManager                                *)
(* The key codes that getState maps to shiftUp and shiftDown, the handlers *)
(* of keydown, keyup and blur, and the fixed-update callback of main.ts,   *)
(* which reads the input at its start and calls endFrame at its end. The   *)
(* host delivers events between two frames, never inside one; a frame runs *)
(* 0..MAX_SUBSTEPS fixed steps and then renders.                           *)
(***************************************************************************)
WatchedSteps == 3       \* fixed steps after a key-down whose input is recorded

ShiftUpCodes == {"KeyE", "ShiftLeft"}
ShiftDownCodes == {"KeyQ", "ControlLeft"}
KeyCodes == ShiftUpCodes \cup ShiftDownCodes

NoPress == [code |-> "none", single |-> FALSE, skipped |-> FALSE, seen |-> <<>>]

\* new InputManager(canvas), before the engine has started
InputConstructed ==
    /\ keys = {}
    /\ justPressed = {}
    /\ held = {}
    /\ frame = [phase |-> "events", stepsLeft |-> 0]
    /\ press = NoPress

\* getState(): the two just-pressed inputs of the gear shift
getState(pressed) ==
    [shiftUp |-> pressed \cap ShiftUpCodes # {},
     shiftDown |-> pressed \cap ShiftDownCodes # {}]

\* the input of getState that the key code sets
InputOf(code, in) == IF code \in ShiftUpCodes THEN in.shiftUp ELSE in.shiftDown

JustPressedOnAnyKeyDown(pressed, down, code) == pressed \cup {code}

\* `if (!this.keys.has(e.code)) this.justPressed.add(e.code)`
JustPressedOnKeyDown(pressed, down, code) ==
    IF code \notin down THEN pressed \cup {code} ELSE pressed

\* the keydown listener
OnKeyDown(code) ==
    /\ justPressed' = JustPressedOnKeyDown(justPressed, keys, code)
    /\ keys' = keys \cup {code}

\* the user presses a key that was up
KeyDown ==
    /\ frame.phase = "events"
    /\ \E code \in KeyCodes \ held :
          /\ held' = held \cup {code}
          /\ OnKeyDown(code)
          /\ press' = [code |-> code, single |-> TRUE, skipped |-> FALSE, seen |-> <<>>]
    /\ UNCHANGED frame
    /\ UNCHANGED <<roadVars, engineVars, transVars, vehicleVars, propVars, schedVars>>

\* keyboard auto-repeat: another keydown event of a key that is held. When
\* it is another key of the same input and the manager takes it for a new
\* press (its code was cleared by a blur), the last key-down is no longer the
\* only one.
KeyRepeat ==
    /\ frame.phase = "events"
    /\ \E code \in held :
          /\ OnKeyDown(code)
          /\ press' = IF /\ code # press.code
                          /\ code \notin keys
                          /\ (code \in ShiftUpCodes) = (press.code \in ShiftUpCodes)
                         THEN [press EXCEPT !.single = FALSE] ELSE press
    /\ UNCHANGED <<held, frame>>
    /\ UNCHANGED <<roadVars, engineVars, transVars, vehicleVars, propVars, schedVars>>

\* the user releases a key: the keyup listener
KeyUp ==
    /\ frame.phase = "events"
    /\ \E code \in held :
          /\ held' = held \ {code}
          /\ keys' = keys \ {code}
          /\ press' = IF code = press.code THEN [press EXCEPT !.single = FALSE] ELSE press
    /\ UNCHANGED <<justPressed, frame>>
    /\ UNCHANGED <<roadVars, engineVars, transVars, vehicleVars, propVars, schedVars>>

\* the window loses the focus, whatever is held: the blur listener
Blur ==
    /\ frame.phase = "events"
    /\ keys' = {}
    /\ press' = [press EXCEPT !.single = FALSE]
    /\ UNCHANGED <<justPressed, held, frame>>
    /\ UNCHANGED <<roadVars, engineVars, transVars, vehicleVars, propVars, schedVars>>

\* the host runs a frame of the loop, which will run n fixed steps
FrameBegin ==
    /\ frame.phase = "events"
    /\ \E n \in 0..MAX_SUBSTEPS :
          /\ frame' = [phase |-> IF n > 0 THEN "fixed" ELSE "render", stepsLeft |-> n]
          /\ press' = IF n = 0 /\ press.seen = <<>> /\ press.single
                         THEN [press EXCEPT !.skipped = TRUE] ELSE press
    /\ UNCHANGED <<keys, justPressed, held>>
    /\ UNCHANGED <<roadVars, engineVars, transVars, vehicleVars, propVars, schedVars>>

\* endFrame(): `this.justPressed.clear()`
endFrame(pressed) == {}

\* the fixed-update callback of main.ts: `const input = getState()`, the step
\* of the vehicle with that input, then endFrame()
InputFixedStep ==
    /\ frame.phase = "fixed"
    /\ LET in == getState(justPressed)
       IN  press' = IF press.single /\ Len(press.seen) < WatchedSteps
                       THEN [press EXCEPT !.seen = Append(@, InputOf(press.code, in))]
                       ELSE press
    /\ justPressed' = endFrame(justPressed)
    /\ frame' = [phase |-> IF frame.stepsLeft > 1 THEN "fixed" ELSE "render",
                 stepsLeft |-> frame.stepsLeft - 1]
    /\ UNCHANGED <<keys, held>>
    /\ UNCHANGED <<roadVars, engineVars, transVars, vehicleVars, propVars, schedVars>>

\* the render callback of main.ts, which does not read the input
InputRender ==
    /\ frame.phase = "render"
    /\ frame' = [phase |-> "events", stepsLeft |-> 0]
    /\ UNCHANGED <<keys, justPressed, held, press>>
    /\ UNCHANGED <<roadVars, engineVars, transVars, vehicleVars, propVars, schedVars>>

(***************************************************************************)
(*                             Transmission                                *)
(* The configuration (VehicleConfig.transmission) is data loaded at start; *)
(* the values below stand for it. Times are in sixtieths of a second,      *)
(* engine speeds in units of 100 rpm, throttle in tenths, ratios in        *)
(* hundredths.                                                             *)
(***************************************************************************)
NumGears == 3        \* config.gearRatios.length
ShiftDelay == 3      \* config.shiftDelay
ShiftUpRpm == 50     \* config.shiftUpRpm
ShiftDownRpm == 20   \* config.shiftDownRpm
ReverseRatio == 350  \* config.reverseRatio
\* config.gearRatios, the ratio of forward gear g at index g - 1
GearRatios == [g \in 1..NumGears |-> 100 * (NumGears + 1 - g)]
\* the 0.1 of `throttle > 0.1`, in tenths
AutoShiftThrottle == 1

\* arguments the operations are called with
DtValues == {0, 1, 2}
RpmValues == {ShiftDownRpm - 1, ShiftDownRpm, ShiftDownRpm + 1, ShiftUpRpm, ShiftUpRpm + 1}
ThrottleValues == {0, AutoShiftThrottle, 2, 6, 10}

NoArg == [rpm |-> 0, throttle |-> 0, dt |-> 0]

\* field initialisers of the two classes
Manual_new == [currentGear |-> 0, shiftTimer |-> 0, shifting |-> FALSE]
Auto_new == [currentGear |-> 1, shiftTimer |-> 0, shifting |-> FALSE]

\* `if (this.shifting) { this.shiftTimer -= dt; if (this.shiftTimer <= 0)
\* this.shifting = false; }`, common to both update methods
TimerTickLate(t, dt) ==
    [t EXCEPT !.shiftTimer = t.shiftTimer - dt,
              !.shifting = ~(t.shiftTimer - dt < 0)]

TimerTick(t, dt) ==
    [t EXCEPT !.shiftTimer = t.shiftTimer - dt,
              !.shifting = ~(t.shiftTimer - dt <= 0)]

\* ---- manual variant ----
Manual_update(t, dt) == IF t.shifting THEN TimerTick(t, dt) ELSE t

Manual_startShift(t) == [t EXCEPT !.shifting = TRUE, !.shiftTimer = ShiftDelay]

Manual_shiftUpWhileShifting(t) ==
    IF t.currentGear < NumGears
       THEN Manual_startShift([t EXCEPT !.currentGear = t.currentGear + 1])
       ELSE t

Manual_shiftUp(t) ==
    IF t.shifting THEN t
    ELSE IF t.currentGear < NumGears
            THEN Manual_startShift([t EXCEPT !.currentGear = t.currentGear + 1])
            ELSE t

Manual_shiftDownUnbounded(t) ==
    IF t.shifting THEN t
    ELSE Manual_startShift([t EXCEPT !.currentGear = t.currentGear - 1])

Manual_shiftDown(t) ==
    IF t.shifting THEN t
    ELSE IF t.currentGear > -1
            THEN Manual_startShift([t EXCEPT !.currentGear = t.currentGear - 1])
            ELSE t

Manual_resetToNeutral(t) ==
    [t EXCEPT !.currentGear = 0, !.shifting = FALSE, !.shiftTimer = 0]

\* `this.config.gearRatios[this.currentGear - 1] ?? 0`
RatioOfGear(g) == IF g \in DOMAIN GearRatios THEN GearRatios[g] ELSE 0

Manual_getCurrentGearRatio(t) ==
    IF t.shifting THEN 0
    ELSE IF t.currentGear = 0 THEN 0
    ELSE IF t.currentGear = -1 THEN ReverseRatio
    ELSE RatioOfGear(t.currentGear)

\* ---- automatic variant ----
Auto_shiftTo(t, gear) ==
    [t EXCEPT !.currentGear = gear, !.shifting = TRUE, !.shiftTimer = ShiftDelay]

Auto_updateAnyGear(t, rpm, throttle, dt) ==
    IF t.shifting THEN TimerTick(t, dt)
    ELSE IF throttle > AutoShiftThrottle
         THEN IF rpm >= ShiftUpRpm /\ t.currentGear < NumGears
                 THEN Auto_shiftTo(t, t.currentGear + 1)
              ELSE IF rpm <= ShiftDownRpm /\ t.currentGear > 1
                 THEN Auto_shiftTo(t, t.currentGear - 1)
              ELSE t
         ELSE t

Auto_update(t, rpm, throttle, dt) ==
    IF t.shifting THEN TimerTick(t, dt)
    ELSE IF t.currentGear >= 1 /\ throttle > AutoShiftThrottle
         THEN IF rpm >= ShiftUpRpm /\ t.currentGear < NumGears
                 THEN Auto_shiftTo(t, t.currentGear + 1)
              ELSE IF rpm <= ShiftDownRpm /\ t.currentGear > 1
                 THEN Auto_shiftTo(t, t.currentGear - 1)
              ELSE t
         ELSE t

Auto_getCurrentGearRatioOfGear(t) ==
    IF t.currentGear = 0 THEN 0
    ELSE IF t.currentGear = -1 THEN ReverseRatio
    ELSE RatioOfGear(t.currentGear)

Auto_getCurrentGearRatio(t) ==
    IF t.shifting THEN 0
    ELSE IF t.currentGear = 0 THEN 0
    ELSE IF t.currentGear = -1 THEN ReverseRatio
    ELSE RatioOfGear(t.currentGear)

Auto_setReverseAlways(t) == [t EXCEPT !.currentGear = -1]

Auto_setReverse(t) == IF ~t.shifting THEN [t EXCEPT !.currentGear = -1] ELSE t

Auto_setForward(t) ==
    IF ~t.shifting /\ t.currentGear <= 0 THEN [t EXCEPT !.currentGear = 1] ELSE t

Auto_setNeutral(t) == [t EXCEPT !.currentGear = 0]

\* getCurrentGearRatio() and isShifting() of the vehicle's transmission
getCurrentGearRatio ==
    IF variant = "manual" THEN Manual_getCurrentGearRatio(trans)
                          ELSE Auto_getCurrentGearRatio(trans)

isShifting == trans.shifting

\* new Transmission(config) of the variant v
TransmissionConstructed(v) ==
    /\ variant = v
    /\ trans = IF v = "manual" THEN Manual_new ELSE Auto_new
    /\ tOp = "new"
    /\ tArg = NoArg
    /\ tPrev = trans
    /\ sinceShift = 0

\* a call op(arg) on the transmission that leaves it as `after`
Called(op, arg, after) ==
    /\ trans' = after
    /\ tOp' = op
    /\ tArg' = arg
    /\ tPrev' = trans
    /\ sinceShift' = IF ~trans.shifting /\ after.shifting THEN 0
                     ELSE IF op = "update" /\ trans.shifting THEN sinceShift + arg.dt
                     ELSE sinceShift
    /\ UNCHANGED variant
    /\ UNCHANGED <<roadVars, engineVars, vehicleVars, propVars, hostVars>>

ManualUpdate ==
    /\ variant = "manual"
    /\ \E dt \in DtValues :
          Called("update", [NoArg EXCEPT !.dt = dt], Manual_update(trans, dt))

ManualShiftUp ==
    /\ variant = "manual"
    /\ Called("shiftUp", NoArg, Manual_shiftUp(trans))

ManualShiftDown ==
    /\ variant = "manual"
    /\ Called("shiftDown", NoArg, Manual_shiftDown(trans))

ManualResetToNeutral ==
    /\ variant = "manual"
    /\ Called("resetToNeutral", NoArg, Manual_resetToNeutral(trans))

AutoUpdate ==
    /\ variant = "automatic"
    /\ \E rpm \in RpmValues, throttle \in ThrottleValues, dt \in DtValues :
          Called("update", [rpm |-> rpm, throttle |-> throttle, dt |-> dt],
                 Auto_update(trans, rpm, throttle, dt))

AutoSetReverse ==
    /\ variant = "automatic"
    /\ Called("setReverse", NoArg, Auto_setReverse(trans))

AutoSetForward ==
    /\ variant = "automatic"
    /\ Called("setForward", NoArg, Auto_setForward(trans))

AutoSetNeutral ==
    /\ variant = "automatic"
    /\ Called("setNeutral", NoArg, Auto_setNeutral(trans))

(***************************************************************************)
(*                              FuelSystem                                 *)
(* dt is in sixtieths of a second and fuel is counted in the amount the    *)
(* idle baseline burns in one of them. The configuration                   *)
(* (VehicleConfig.fuel) is data loaded at start; the values below stand    *)
(* for it.                                                                 *)
(***************************************************************************)
TankCapacity == 8   \* config.tankCapacity
\* `const idleConsumption = 0.0002`, in fuel units per unit of dt
IdleConsumption == 1
\* bsfc * (2 PI / 60) / 1000 / 3600 / (fuelDensity * 1000), as 1 / PowerScale
\* fuel units per unit of dt for one unit of |torque * rpm|
PowerScale == 5000

Abs(x) == IF x < 0 THEN -x ELSE x
Max(a, b) == IF a >= b THEN a ELSE b

\* clamp(value, min, max) == Math.max(min, Math.min(max, value))
clamp(value, lo, hi) == Max(lo, Min(hi, value))

\* fuelLitersPerSecond + idleConsumption
totalConsumption(rpm, torque) == (Abs(torque * rpm) \div PowerScale) + IdleConsumption

Fuel_updateSigned(fuel, rpm, torque, dt) ==
    IF fuel <= 0 THEN fuel
    ELSE clamp(fuel - (((torque * rpm) \div PowerScale) + IdleConsumption) * dt,
               0, TankCapacity)

\* FuelSystem.update(rpm, torque, dt)
Fuel_update(fuel, rpm, torque, dt) ==
    IF fuel <= 0 THEN fuel
    ELSE clamp(fuel - totalConsumption(rpm, torque) * dt, 0, TankCapacity)

Fuel_isEmpty(fuel) == fuel <= 0

Fuel_refuelNoFloor(fuel, amount) == Min(TankCapacity, fuel + amount)

\* FuelSystem.refuel(amount), amount given
Fuel_refuel(fuel, amount) == clamp(fuel + amount, 0, TankCapacity)

\* FuelSystem.refuel(): `amount ?? this.config.tankCapacity`
Fuel_refuelFull(fuel) == Fuel_refuel(fuel, TankCapacity)

\* arguments the operations are called with
FuelRpmValues == {0, 8, 30, 65}
FuelTorqueValues == {-200, -30, 0, 100, 200}
FuelDtValues == {0, 1, 2}
RefuelAmounts == {-(TankCapacity + 1), -1, 0, 1, 5, TankCapacity}

NoFuelArg == [rpm |-> 0, torque |-> 0, dt |-> 0, amount |-> 0]

\* new FuelSystem(config)
FuelConstructed ==
    /\ currentFuel = TankCapacity
    /\ fOp = "new"
    /\ fArg = NoFuelArg
    /\ fPrev = TankCapacity

FuelCalled(op, arg, after) ==
    /\ currentFuel' = after
    /\ fOp' = op
    /\ fArg' = arg
    /\ fPrev' = currentFuel
    /\ UNCHANGED <<roadVars, engineVars, transVars, simVars, curveVars, ctrlVars, propVars, hostVars>>

FuelUpdate ==
    \E rpm \in FuelRpmValues, torque \in FuelTorqueValues, dt \in FuelDtValues :
        FuelCalled("update", [NoFuelArg EXCEPT !.rpm = rpm, !.torque = torque, !.dt = dt],
                   Fuel_update(currentFuel, rpm, torque, dt))

FuelRefuel ==
    \E amount \in RefuelAmounts :
        FuelCalled("refuel", [NoFuelArg EXCEPT !.amount = amount],
                   Fuel_refuel(currentFuel, amount))

FuelRefuelFull ==
    FuelCalled("refuelFull", NoFuelArg, Fuel_refuelFull(currentFuel))

(***************************************************************************)
(*                           EngineSimulation                              *)
(* Engine speeds are in units of 100 rpm, throttle in hundredths, gear     *)
(* ratios in hundredths, dt in sixtieths of a second, torque in Nm. A      *)
(* product with a fraction is rounded down to the unit. The configuration  *)
(* (VehicleConfig.engine) is data loaded at start; the values below stand  *)
(* for it.                                                                 *)
(***************************************************************************)
IdleRpm == 8                 \* config.idleRpm
RedlineRpm == 60             \* config.redlineRpm
MaxRpm == 65                 \* config.maxRpm
EngineBrakingTenths == 5     \* config.engineBrakingFactor, in tenths
FinalDriveRatio == 4         \* config.finalDriveRatio
\* `const gripThreshold = 2000`
GripThreshold == 20
\* update is not called on an engine whose speed has left this range
RpmCap == 100

\* config.torqueCurve: [rpm, torqueNm] samples
TorqueCurve == <<<<10, 120>>, <<30, 200>>, <<50, 180>>, <<65, 100>>>>

\* lerp(a, b, t) == a + (b - a) * t, with t = tn / td
lerp(a, b, tn, td) == a + (((b - a) * tn) \div td)

\* the for loop of lookupTorque from index i, scanning up to index last - 1
RECURSIVE lookupFrom(_, _, _, _)
lookupFrom(curve, rpm, i, last) ==
    IF i >= last THEN 0
    ELSE IF rpm >= curve[i][1] /\ rpm <= curve[i + 1][1]
         THEN lerp(curve[i][2], curve[i + 1][2],
                   rpm - curve[i][1], curve[i + 1][1] - curve[i][1])
         ELSE lookupFrom(curve, rpm, i + 1, last)

lookupTorqueShortLoop(curve, rpm) ==
    IF rpm <= curve[1][1] THEN curve[1][2]
    ELSE IF rpm >= curve[Len(curve)][1] THEN curve[Len(curve)][2]
    ELSE lookupFrom(curve, rpm, 1, Len(curve) - 1)

\* EngineSimulation.lookupTorque(rpm)
lookupTorque(curve, rpm) ==
    IF rpm <= curve[1][1] THEN curve[1][2]
    ELSE IF rpm >= curve[Len(curve)][1] THEN curve[Len(curve)][2]
    ELSE lookupFrom(curve, rpm, 1, Len(curve))

\* drivetrainRpm = Math.abs(wheelRpm) * Math.abs(gearRatio) * finalDrive
drivetrainRpm(wheelRpm, gearRatio, finalDrive) ==
    (Abs(wheelRpm) * Abs(gearRatio) * finalDrive) \div 100

\* targetRpm of the clutch-slip variant
Slip_targetRpm(throttle, wheelRpm, gearRatio, finalDrive) ==
    IF gearRatio # 0
    THEN LET dr == drivetrainRpm(wheelRpm, gearRatio, finalDrive)
             slipCeiling == IdleRpm + ((throttle * (IdleRpm * 2)) \div 100)
             grip == clamp(dr, 0, GripThreshold)
             slipBoost == (slipCeiling * (GripThreshold - grip)) \div GripThreshold
         IN  Max(IdleRpm, dr + slipBoost)
    ELSE IdleRpm + ((throttle * (RedlineRpm - IdleRpm) * 85) \div 10000)

\* targetRpm of the simple variant
Simple_targetRpm(throttle, wheelRpm, gearRatio, finalDrive) ==
    IF gearRatio # 0
    THEN Max(IdleRpm, drivetrainRpm(wheelRpm, gearRatio, finalDrive))
    ELSE IdleRpm + ((throttle * (MaxRpm - IdleRpm) * 30) \div 10000)

\* rpmSpeed
Sim_rpmSpeed(v, throttle) ==
    IF v = "slip" THEN (IF throttle > 10 THEN 8 ELSE 15)
    ELSE (IF throttle > 0 THEN 8 ELSE 12)

\* this.rpm after EngineSimulation.update(throttle, wheelRpm, gearRatio, finalDrive, dt)
Sim_rpmAfter(v, rpm, isOn, a) ==
    IF ~isOn THEN lerp(rpm, 0, a.dt * 5, 60)
    ELSE LET target == IF v = "slip"
                       THEN Slip_targetRpm(a.throttle, a.wheelRpm, a.gearRatio, a.finalDrive)
                       ELSE Simple_targetRpm(a.throttle, a.wheelRpm, a.gearRatio, a.finalDrive)
         IN  clamp(lerp(rpm, target, a.dt * Sim_rpmSpeed(v, a.throttle), 60), 0, MaxRpm)

\* the rev limiter's fraction of the curve torque: 0.05 or 0.1
RevLimited(v, curveTorque) ==
    IF v = "slip" THEN (curveTorque * 5) \div 100 ELSE (curveTorque * 10) \div 100

\* -engineBrakingFactor * curveTorque * 0.3
EngineBraking(curveTorque) == -((EngineBrakingTenths * curveTorque * 3) \div 100)

Sim_torqueBrakingFirst(v, rpm, isOn, curve, a) ==
    IF ~isOn THEN 0
    ELSE IF a.throttle < 1 /\ a.gearRatio # 0 THEN EngineBraking(lookupTorque(curve, rpm))
    ELSE IF rpm >= RedlineRpm THEN RevLimited(v, lookupTorque(curve, rpm))
    ELSE (lookupTorque(curve, rpm) * a.throttle) \div 100

\* the value update returns, from the rpm it has just stored
Sim_torque(v, rpm, isOn, curve, a) ==
    IF ~isOn THEN 0
    ELSE IF rpm >= RedlineRpm THEN RevLimited(v, lookupTorque(curve, rpm))
    ELSE IF a.throttle < 1 /\ a.gearRatio # 0 THEN EngineBraking(lookupTorque(curve, rpm))
    ELSE (lookupTorque(curve, rpm) * a.throttle) \div 100

\* arguments update is called with
SimThrottleValues == {0, 1, 100}
SimWheelRpmValues == {0, 1, 6}
SimGearRatioValues == {-350, 0, 300}
SimDtValues == {0, 1, 30}

NoSimArg == [throttle |-> 0, wheelRpm |-> 0, gearRatio |-> 0,
             finalDrive |-> FinalDriveRatio, dt |-> 0, running |-> TRUE]

\* new EngineSimulation(config)
SimConstructed(v) ==
    /\ simVariant = v
    /\ simRpm = IdleRpm
    /\ simRunning = TRUE
    /\ sOp = "new"
    /\ sArg = NoSimArg
    /\ sPrev = [rpm |-> IdleRpm, running |-> TRUE]
    /\ sTorque = 0

CurveConfigured(curve) ==
    /\ torqueCurve = curve
    /\ qRpm = 0
    /\ qTorque = lookupTorque(curve, 0)

SimUpdate ==
    /\ Abs(simRpm) <= RpmCap
    /\ \E throttle \in SimThrottleValues, wheelRpm \in SimWheelRpmValues,
          gearRatio \in SimGearRatioValues, dt \in SimDtValues :
          LET a == [NoSimArg EXCEPT !.throttle = throttle, !.wheelRpm = wheelRpm,
                                    !.gearRatio = gearRatio, !.dt = dt]
              after == Sim_rpmAfter(simVariant, simRpm, simRunning, a)
          IN  /\ simRpm' = after
              /\ sTorque' = Sim_torque(simVariant, after, simRunning, torqueCurve, a)
              /\ sOp' = "update"
              /\ sArg' = a
    /\ sPrev' = [rpm |-> simRpm, running |-> simRunning]
    /\ UNCHANGED <<simVariant, simRunning>>
    /\ UNCHANGED <<roadVars, engineVars, transVars, fuelVars, curveVars, ctrlVars, propVars, hostVars>>

\* EngineSimulation.setRunning(running)
SimSetRunning ==
    /\ \E b \in BOOLEAN :
          /\ simRunning' = b
          /\ simRpm' = IF b THEN IdleRpm ELSE simRpm
          /\ sArg' = [NoSimArg EXCEPT !.running = b]
    /\ sOp' = "setRunning"
    /\ sPrev' = [rpm |-> simRpm, running |-> simRunning]
    /\ UNCHANGED <<simVariant, sTorque>>
    /\ UNCHANGED <<roadVars, engineVars, transVars, fuelVars, curveVars, ctrlVars, propVars, hostVars>>

(***************************************************************************)
(* lookupTorque as a function of the curve and the speed                   *)
(***************************************************************************)
CurveRpms == {2, 4, 6, 8}
CurveTorques == {3, 9, 12}
MaxQueryRpm == 10

RECURSIVE SetToSortedSeq(_)
SetToSortedSeq(S) ==
    IF S = {} THEN <<>>
    ELSE LET m == CHOOSE x \in S : \A y \in S : x <= y
         IN  <<m>> \o SetToSortedSeq(S \ {m})

\* the curves with at least two samples of strictly increasing rpm
Curves ==
    UNION { LET rs == SetToSortedSeq(R)
            IN  { [i \in 1..Len(rs) |-> <<rs[i], f[i]>>] : f \in [1..Len(rs) -> CurveTorques] }
          : R \in { X \in SUBSET CurveRpms : Cardinality(X) >= 2 } }

LookupTorque ==
    /\ \E rpm \in 0..MaxQueryRpm :
          /\ qRpm' = rpm
          /\ qTorque' = lookupTorque(torqueCurve, rpm)
    /\ UNCHANGED torqueCurve
    /\ UNCHANGED <<roadVars, engineVars, transVars, fuelVars, simVars, ctrlVars, propVars, hostVars>>

(***************************************************************************)
(*                           VehicleController                             *)
(* The manual controller drives the manual Transmission, the automatic     *)
(* controller the automatic one (`variant`). What the controller reads     *)
(* from the physics engine (average wheel speed, vehicle speed, chassis    *)
(* pose) is an input of the step. Steering angles are in units of          *)
(* maxAngle, forces in N rounded down. The configuration (VehicleConfig)   *)
(* is data loaded at start; the values below stand for it.                 *)
(***************************************************************************)
EfficiencyTenths == 9     \* config.transmission.efficiency, in tenths
WheelRadiusCm == 35       \* config.wheels.radius, in hundredths of a metre
MaxBrakeForce == 50       \* config.brakes.maxForce
MaxSteerAngle == 1        \* config.steering.maxAngle
SteerSpeed == 60          \* config.steering.speed, per second
SteerReturnSpeed == 60    \* config.steering.returnSpeed, per second
\* `holdBrake = 15`
HoldBrake == 15
\* the 3 of `speed < 3` and the 5 of `speed > 5`
HoldSpeed == 3
BrakeFirstSpeed == 5
\* the dt fixedUpdate is called with: PHYSICS_TIMESTEP, one sixtieth
FixedDt == 1

NoInput == [forward |-> FALSE, backward |-> FALSE, left |-> FALSE, right |-> FALSE,
            brake |-> FALSE, shiftUp |-> FALSE, shiftDown |-> FALSE]

\* the InputState values fixedUpdate is called with
CtrlInputs ==
    { NoInput,
      [NoInput EXCEPT !.forward = TRUE],
      [NoInput EXCEPT !.backward = TRUE],
      [NoInput EXCEPT !.shiftUp = TRUE],
      [NoInput EXCEPT !.shiftDown = TRUE],
      [NoInput EXCEPT !.shiftUp = TRUE, !.shiftDown = TRUE],
      [NoInput EXCEPT !.forward = TRUE, !.left = TRUE],
      [NoInput EXCEPT !.right = TRUE, !.brake = TRUE] }

\* getAverageWheelRpm(), getSpeed() and the chassis pose as the physics
\* engine reports them; a pose is <<position, rotation>>
CtrlWheelRpmValues == {0, 6}
CtrlSpeedValues == {0, 6}
IdentityRotation == "identity"
BodyPoses == {<<2, "turned">>}
ResetPositions == {0, 1}

\* `throttle`, in hundredths (manual variant)
Manual_throttle(in) == IF in.forward THEN 100 ELSE IF in.backward THEN 60 ELSE 0

\* `throttle`, in hundredths (automatic variant)
Auto_throttle(in, speed) ==
    IF in.forward THEN 100
    ELSE IF in.backward THEN (IF speed > BrakeFirstSpeed THEN 0 ELSE 60)
    ELSE 0

Manual_shiftRequestsDownFirst(t, in) ==
    LET t1 == IF in.shiftDown THEN Manual_shiftDown(t) ELSE t
    IN  IF in.shiftUp THEN Manual_shiftUp(t1) ELSE t1

\* the transmission after the shift requests of the step (manual variant)
Manual_shiftRequests(t, in) ==
    LET t1 == IF in.shiftUp THEN Manual_shiftUp(t) ELSE t
    IN  IF in.shiftDown THEN Manual_shiftDown(t1) ELSE t1

\* the transmission after the direction selection of the step (automatic)
Auto_direction(t, in, speed) ==
    IF in.forward THEN Auto_setForward(t)
    ELSE IF in.backward /\ ~(speed > BrakeFirstSpeed) THEN Auto_setReverse(t)
    ELSE t

\* this.currentSteering after the lerp of the step
SteeringAfter(steering, in, dt) ==
    LET steerTarget == (IF in.left THEN 1 ELSE 0) - (IF in.right THEN 1 ELSE 0)
        steerSpeed == IF steerTarget # 0 THEN SteerSpeed ELSE SteerReturnSpeed
    IN  lerp(steering, steerTarget * MaxSteerAngle, dt * steerSpeed, 60)

StallNever(fuel, isOn) == isOn

StallFlipsWhenEmpty(fuel, isOn) == IF Fuel_isEmpty(fuel) THEN ~isOn ELSE isOn

\* `if (this.fuel.isEmpty() && this.engine.isRunning()) this.engine.setRunning(false)`
StallIfEmpty(fuel, isOn) == IF Fuel_isEmpty(fuel) /\ isOn THEN FALSE ELSE isOn

\* `wheelForce`
WheelForce(isOn, torque, gearRatio, finalDrive) ==
    IF isOn /\ gearRatio # 0
    THEN (torque * gearRatio * finalDrive * EfficiencyTenths) \div (10 * WheelRadiusCm)
    ELSE 0

EngineForcesFrontDrive(wheelForce) ==
    [i \in 1..4 |-> IF i - 1 >= 2 THEN 0 ELSE wheelForce \div 2]

\* the setWheelEngineForce(i, ...) calls of the loop over i = 0..3
EngineForces(wheelForce) ==
    [i \in 1..4 |-> IF i - 1 >= 2 THEN wheelForce \div 2 ELSE 0]

\* `brakeForce`; the automatic variant has no hill hold
BrakeForce(v, in, gearRatio, throttle, speed) ==
    (IF in.brake THEN 1 ELSE 0) * MaxBrakeForce
    + (IF v = "manual" /\ gearRatio # 0 /\ throttle < 1 /\ speed < HoldSpeed
       THEN HoldBrake ELSE 0)

\* gearRatio and torque: `gearRatio` and `engineTorque` of the step; ranDry:
\* the fuel update of the step took the level from above 0 to 0; position:
\* the argument of reset; gearAtRead and shiftingAtRead: the transmission when
\* the step read the gear ratio; bothShifts: the input of the step asked for
\* shiftUp and shiftDown; gearBefore and shiftingBefore: the transmission
\* when such a step began
NoStep == [gearRatio |-> 0, torque |-> 0, ranDry |-> FALSE, position |-> 0,
           gearAtRead |-> 0, shiftingAtRead |-> FALSE, bothShifts |-> FALSE,
           gearBefore |-> 0, shiftingBefore |-> FALSE]

GearRatioReadAfterUpdate(v, atRead, updated) ==
    IF v = "manual" THEN Manual_getCurrentGearRatio(updated)
    ELSE Auto_getCurrentGearRatio(updated)

\* `const gearRatio = this.transmission.getCurrentGearRatio()`, the statement
\* before transmission.update: atRead is the transmission then, updated is
\* the transmission after the update
GearRatioRead(v, atRead, updated) ==
    IF v = "manual" THEN Manual_getCurrentGearRatio(atRead)
    ELSE Auto_getCurrentGearRatio(atRead)

\* field initialisers of VehicleController
ControllerFields ==
    /\ currentSteering = 0
    /\ braking = FALSE
    /\ inReverse = FALSE
    /\ prevPose = <<0, IdentityRotation>>
    /\ currPose = <<0, IdentityRotation>>
    /\ wheelBrake = 0
    /\ wheelEngineForce = [i \in 1..4 |-> 0]
    /\ vOp = "new"
    /\ vStep = NoStep

\* new VehicleController(world, config) of the variant v with the engine e
VehicleConstructed(v, e) ==
    /\ TransmissionConstructed(v)
    /\ SimConstructed(e)
    /\ CurveConfigured(TorqueCurve)
    /\ FuelConstructed
    /\ ControllerFields

\* VehicleController.fixedUpdate(input, dt)
FixedUpdate ==
    \E in \in CtrlInputs, wheelRpm \in CtrlWheelRpmValues, speed \in CtrlSpeedValues,
       pose \in BodyPoses :
        LET dt == FixedDt
            throttle == IF variant = "manual" THEN Manual_throttle(in)
                        ELSE Auto_throttle(in, speed)
            t1 == IF variant = "manual" THEN Manual_shiftRequests(trans, in)
                  ELSE Auto_direction(trans, in, speed)
            t2 == IF variant = "manual" THEN Manual_update(t1, dt)
                  ELSE Auto_update(t1, simRpm, throttle \div 10, dt)
            gearRatio == GearRatioRead(variant, t1, t2)
            a == [NoSimArg EXCEPT !.throttle = throttle, !.wheelRpm = wheelRpm,
                                  !.gearRatio = gearRatio, !.dt = dt]
            rpm1 == Sim_rpmAfter(simVariant, simRpm, simRunning, a)
            engineTorque == Sim_torque(simVariant, rpm1, simRunning, torqueCurve, a)
            fuel1 == Fuel_update(currentFuel, rpm1, engineTorque, dt)
            isOn == StallIfEmpty(fuel1, simRunning)
            wheelForce == WheelForce(isOn, engineTorque, gearRatio, a.finalDrive)
        IN  /\ trans' = t2
            /\ simRpm' = rpm1
            /\ simRunning' = isOn
            /\ sTorque' = engineTorque
            /\ currentFuel' = fuel1
            /\ currentSteering' = SteeringAfter(currentSteering, in, dt)
            /\ braking' = IF variant = "manual" THEN in.brake ELSE braking
            /\ inReverse' = IF variant = "manual" THEN t1.currentGear = -1 ELSE inReverse
            /\ prevPose' = IF variant = "manual" THEN currPose ELSE prevPose
            /\ currPose' = IF variant = "manual" THEN pose ELSE currPose
            /\ wheelBrake' = BrakeForce(variant, in, gearRatio, throttle, speed)
            /\ wheelEngineForce' = EngineForces(wheelForce)
            /\ vOp' = "fixedUpdate"
            /\ vStep' = [NoStep EXCEPT !.gearRatio = gearRatio, !.torque = engineTorque,
                                       !.ranDry = (currentFuel > 0 /\ fuel1 = 0),
                                       !.gearAtRead = t1.currentGear,
                                       !.shiftingAtRead = t1.shifting,
                                       !.bothShifts = (in.shiftUp /\ in.shiftDown),
                                       !.gearBefore = IF in.shiftUp /\ in.shiftDown
                                                      THEN trans.currentGear ELSE 0,
                                       !.shiftingBefore = (in.shiftUp /\ in.shiftDown
                                                           /\ trans.shifting)]
            /\ UNCHANGED <<variant, tOp, tArg, tPrev, sinceShift, fOp, fArg, fPrev,
                           simVariant, sOp, sArg, sPrev, curveVars>>
            /\ UNCHANGED <<roadVars, engineVars, propVars, hostVars>>

\* VehicleController.reset(position)
Reset ==
    \E pos \in ResetPositions :
        /\ currentSteering' = 0
        /\ prevPose' = IF variant = "manual" THEN <<pos, IdentityRotation>> ELSE prevPose
        /\ currPose' = IF variant = "manual" THEN <<pos, IdentityRotation>> ELSE currPose
        /\ trans' = IF variant = "manual" THEN Manual_resetToNeutral(trans) ELSE trans
        /\ simRunning' = TRUE
        /\ simRpm' = IdleRpm
        /\ currentFuel' = Fuel_refuelFull(currentFuel)
        /\ vOp' = "reset"
        /\ vStep' = [NoStep EXCEPT !.position = pos]
        /\ UNCHANGED <<braking, inReverse, wheelBrake, wheelEngineForce>>
        /\ UNCHANGED <<variant, tOp, tArg, tPrev, sinceShift, fOp, fArg, fPrev,
                       simVariant, sOp, sArg, sPrev, sTorque, curveVars>>
        /\ UNCHANGED <<roadVars, engineVars, propVars, hostVars>>

(***************************************************************************)
(* RoadsideProps constructed again and again, for any chunk in any order   *)
(***************************************************************************)
\* the first RoadsideProps, constructed for the chunk i
PropsConstructed(i) ==
    /\ trackedIndex = i
    /\ genIndex = i
    /\ generated = generate(i, PropSeed(i, 1))
    /\ firstGenerated = generated
    /\ othersBetween = FALSE
    /\ rngAfter = generated.rng

\* new RoadsideProps(spline, tStart, tEnd, world) for the chunk j
GenerateChunk ==
    /\ \E j \in 0..(CHUNK_COUNT - 1) :
          /\ genIndex' = j
          /\ generated' = generate(j, PropSeed(j, rngAfter))
          /\ othersBetween' = (othersBetween \/ j # trackedIndex)
    /\ rngAfter' = generated'.rng
    /\ UNCHANGED <<trackedIndex, firstGenerated>>
    /\ UNCHANGED <<roadVars, engineVars, transVars, vehicleVars, hostVars>>

(***************************************************************************)
(*                            Specifications                               *)
(***************************************************************************)
\* the road streaming alone, for any road
InitRoad ==
    /\ SchedulerConstructed
    /\ InputConstructed
    /\ \E i \in 0..ClosestSteps, w \in BOOLEAN : RoadConstructed(i, w)
    /\ PropsConstructed(0)
    /\ InitEngine
    /\ VehicleConstructed("manual", "slip")

NextRoad == UpdateChunks

SpecRoad == InitRoad /\ [][NextRoad]_vars

\* the frame loop alone
InitEngineLoop ==
    /\ SchedulerConstructed
    /\ InputConstructed
    /\ RoadConstructed(0, FALSE)
    /\ PropsConstructed(0)
    /\ InitEngine
    /\ VehicleConstructed("manual", "slip")

NextEngine ==
    \/ OnFixedUpdate
    \/ OnRender
    \/ Start
    \/ Stop
    \/ LoopEnter
    \/ WhileTest
    \/ FixedStep
    \/ RenderStep

SpecEngine == InitEngineLoop /\ [][NextEngine]_vars

\* the frame loop with start() and stop() called from anywhere
InitScheduler ==
    /\ RoadConstructed(0, FALSE)
    /\ PropsConstructed(0)
    /\ InitEngine
    /\ VehicleConstructed("manual", "slip")
    /\ SchedulerConstructed
    /\ InputConstructed

NextScheduler ==
    \/ SchedStart
    \/ SchedStop
    \/ HostFrame
    \/ RunRequest
    \/ LoopTest
    \/ FixedReturn
    \/ RenderReturn
    \/ LoopRequest

SpecScheduler == InitScheduler /\ [][NextScheduler]_vars

\* the keyboard, the frames and the fixed-update callback
InitInput ==
    /\ RoadConstructed(0, FALSE)
    /\ PropsConstructed(0)
    /\ InitEngine
    /\ VehicleConstructed("manual", "slip")
    /\ SchedulerConstructed
    /\ InputConstructed

NextInput ==
    \/ KeyDown
    \/ KeyRepeat
    \/ KeyUp
    \/ Blur
    \/ FrameBegin
    \/ InputFixedStep
    \/ InputRender

SpecInput == InitInput /\ [][NextInput]_vars

\* the transmission alone, of either variant
InitTransmission ==
    /\ SchedulerConstructed
    /\ InputConstructed
    /\ RoadConstructed(0, FALSE)
    /\ PropsConstructed(0)
    /\ InitEngine
    /\ \E v \in {"manual", "automatic"} : TransmissionConstructed(v)
    /\ FuelConstructed
    /\ SimConstructed("slip")
    /\ CurveConfigured(TorqueCurve)
    /\ ControllerFields

NextTransmission ==
    \/ ManualUpdate
    \/ ManualShiftUp
    \/ ManualShiftDown
    \/ ManualResetToNeutral
    \/ AutoUpdate
    \/ AutoSetReverse
    \/ AutoSetForward
    \/ AutoSetNeutral

SpecTransmission == InitTransmission /\ [][NextTransmission]_vars

\* update(dt) with dt > 0
UpdateWithTime == (ManualUpdate \/ AutoUpdate) /\ tArg'.dt > 0

\* the transmission of a vehicle that is being simulated: the controller calls
\* update with the fixed step, which is positive, in every step, whatever else
\* is called in between
SpecTransmissionStepped ==
    InitTransmission /\ [][NextTransmission]_vars /\ WF_vars(UpdateWithTime)

\* the fuel system alone
InitFuel ==
    /\ SchedulerConstructed
    /\ InputConstructed
    /\ RoadConstructed(0, FALSE)
    /\ PropsConstructed(0)
    /\ InitEngine
    /\ VehicleConstructed("manual", "slip")

NextFuel == FuelUpdate \/ FuelRefuel \/ FuelRefuelFull

SpecFuel == InitFuel /\ [][NextFuel]_vars

\* the engine simulation alone, in either variant
InitEngineSim ==
    /\ SchedulerConstructed
    /\ InputConstructed
    /\ RoadConstructed(0, FALSE)
    /\ PropsConstructed(0)
    /\ InitEngine
    /\ TransmissionConstructed("manual")
    /\ FuelConstructed
    /\ \E v \in {"simple", "slip"} : SimConstructed(v)
    /\ CurveConfigured(TorqueCurve)
    /\ ControllerFields

NextEngineSim == SimUpdate \/ SimSetRunning

SpecEngineSim == InitEngineSim /\ [][NextEngineSim]_vars

\* lookupTorque on every curve of Curves
InitTorqueCurve ==
    /\ SchedulerConstructed
    /\ InputConstructed
    /\ RoadConstructed(0, FALSE)
    /\ PropsConstructed(0)
    /\ InitEngine
    /\ TransmissionConstructed("manual")
    /\ FuelConstructed
    /\ SimConstructed("slip")
    /\ \E curve \in Curves : CurveConfigured(curve)
    /\ ControllerFields

NextTorqueCurve == LookupTorque

SpecTorqueCurve == InitTorqueCurve /\ [][NextTorqueCurve]_vars

\* the vehicle: either controller variant with either engine variant
InitVehicle ==
    /\ SchedulerConstructed
    /\ InputConstructed
    /\ RoadConstructed(0, FALSE)
    /\ PropsConstructed(0)
    /\ InitEngine
    /\ \E v \in {"manual", "automatic"}, e \in {"simple", "slip"} : VehicleConstructed(v, e)

NextVehicle == FixedUpdate \/ Reset

SpecVehicle == InitVehicle /\ [][NextVehicle]_vars

\* the props of the chunks, generated in any order
InitProps ==
    /\ SchedulerConstructed
    /\ InputConstructed
    /\ RoadConstructed(0, FALSE)
    /\ InitEngine
    /\ VehicleConstructed("manual", "slip")
    /\ \E i \in 0..(CHUNK_COUNT - 1) : PropsConstructed(i)

NextProps == GenerateChunk

SpecProps == InitProps /\ [][NextProps]_vars
(***************************************************************************)
(*                     Properties of RoadManager                           *)
(***************************************************************************)
\* the window of the claim: {i : active - VISIBLE_BEHIND <= i <= active +
\* VISIBLE_AHEAD} intersected with [0, CHUNK_COUNT)
Window(active) ==
    {i \in 0..(CHUNK_COUNT - 1) :
        active - VISIBLE_BEHIND <= i /\ i <= active + VISIBLE_AHEAD}

\* C1: after every updateChunks call, the constructor's included, the chunk
\* map holds exactly the indices of the window around the active chunk index,
\* the index derived from the closest spline parameter, cut to
\* [0, CHUNK_COUNT): nothing outside the window is loaded and everything in it is.
ChunksEqualWindow ==
    /\ currentChunkIndex = ChunkIndexOf(closestSample)
    /\ chunks = Window(currentChunkIndex)

\* an update at the end of the road (closest sample t = 1) that disposed chunks
\* and left the window cut off at CHUNK_COUNT
ChunksWindowMoved ==
    /\ closestSample = ClosestSteps
    /\ lastRemoved # {}
    /\ lastLoaded # {}
    /\ chunks = {CHUNK_COUNT - 2, CHUNK_COUNT - 1}

(***************************************************************************)
(*                        Properties of Engine                             *)
(***************************************************************************)
IsPrefix(a, b) == Len(a) <= Len(b) /\ \A i \in 1..Len(a) : a[i] = b[i]

CallbackIds(entries) == [i \in 1..Len(entries) |-> entries[i].cb]

\* the fixed-update callbacks invoked in round r of the current frame, in order
FixedIds(r) ==
    LET InRound(e) == e.kind = "fixed" /\ e.round = r
    IN CallbackIds(SelectSeq(trace, InRound))

\* the render callbacks invoked in the current frame, in order
RenderIds ==
    LET IsRender(e) == e.kind = "render"
    IN CallbackIds(SelectSeq(trace, IsRender))

\* the current round has invoked the last callback of the list
RoundComplete == pc = "fixed" /\ cbIdx = Len(fixedUpdateCallbacks) + 1

\* C2: the alpha passed to every render callback satisfies 0 <= alpha < 1, in
\* every frame and for every sequence of frame deltas, the frames the
\* MAX_SUBSTEPS cap cuts short included.
AlphaInUnitInterval ==
    \A i \in DOMAIN trace :
        trace[i].kind = "render" =>
            /\ 0 <= trace[i].alpha[1]
            /\ trace[i].alpha[1] < trace[i].alpha[2]

CallbacksInRegistrationOrder ==
    /\ \A r \in 0..(MAX_SUBSTEPS - 1) : IsPrefix(FixedIds(r), fixedRegLog)
    /\ RoundComplete => FixedIds(steps) = fixedRegLog
    /\ IsPrefix(RenderIds, renderRegLog)
    /\ done => RenderIds = renderRegLog

\* a frame in which a second, different fixed-update callback was registered
\* after the first round and a second render callback after start()
RegisteredWhileRunning ==
    /\ done
    /\ steps >= 2
    /\ Len(FixedIds(0)) = 1
    /\ Len(FixedIds(1)) = 2
    /\ FixedIds(1)[1] # FixedIds(1)[2]
    /\ Len(RenderIds) = 2
    /\ RenderIds[1] # RenderIds[2]
(***************************************************************************)
(*                      Properties of Transmission                         *)
(***************************************************************************)
\* C6: in both variants the current gear is an integer in [-1, N],
\* N = gearRatios.length, after any sequence of public operations.
GearInRange == trans.currentGear \in (-1)..NumGears

\* a shiftDown asked in reverse, not shifting, that left the gear at -1
ShiftDownAtReverse ==
    /\ variant = "manual"
    /\ tOp = "shiftDown"
    /\ ~tPrev.shifting
    /\ tPrev.currentGear = -1
    /\ trans.currentGear = -1

\* C7: in both variants getCurrentGearRatio() is 0 whenever isShifting() is
\* true, whatever the gear; when not shifting it is 0 in gear 0, reverseRatio
\* in gear -1 and gearRatios[gear - 1] in a gear >= 1.
RatioZeroWhileShifting ==
    /\ isShifting => getCurrentGearRatio = 0
    /\ ~isShifting =>
          /\ trans.currentGear = 0 => getCurrentGearRatio = 0
          /\ trans.currentGear = -1 => getCurrentGearRatio = ReverseRatio
          /\ trans.currentGear >= 1 =>
                /\ trans.currentGear \in DOMAIN GearRatios
                /\ getCurrentGearRatio = GearRatios[trans.currentGear]

\* the automatic transmission shifting into its top gear: the ratio read is 0
\* although the gear's own ratio is not
ShiftingIntoTopGear ==
    /\ variant = "automatic"
    /\ isShifting
    /\ trans.currentGear = NumGears
    /\ GearRatios[trans.currentGear] # 0
    /\ getCurrentGearRatio = 0

\* C8: manual variant: a rejected shiftUp or shiftDown (asked while shifting,
\* or shiftUp in gear N, or shiftDown in gear -1) leaves gear, shifting flag
\* and shift timer as they were; an accepted one changes the gear by exactly
\* one and starts a shift with timer = shiftDelay.
ManualShiftRequestEffect ==
    (variant = "manual" /\ tOp \in {"shiftUp", "shiftDown"}) =>
        LET up == tOp = "shiftUp"
            rejected == \/ tPrev.shifting
                        \/ (up /\ tPrev.currentGear = NumGears)
                        \/ (~up /\ tPrev.currentGear = -1)
        IN IF rejected
              THEN trans = tPrev
              ELSE /\ trans.currentGear = tPrev.currentGear + (IF up THEN 1 ELSE -1)
                   /\ trans.shifting
                   /\ trans.shiftTimer = ShiftDelay

\* a shiftUp asked in the middle of a shift, with part of the delay elapsed
ShiftUpAskedWhileShifting ==
    /\ variant = "manual"
    /\ tOp = "shiftUp"
    /\ tPrev.shifting
    /\ tPrev.shiftTimer < ShiftDelay
    /\ tPrev.currentGear < NumGears
    /\ trans = tPrev

\* C9: automatic variant: update(rpm, throttle, dt) changes the gear only when
\* it is not shifting, the gear is >= 1 and throttle > 0.1; then it goes up
\* one gear if rpm >= shiftUpRpm and gear < N, otherwise down one gear if
\* rpm <= shiftDownRpm and gear > 1, and each change starts a shift; in
\* reverse, in neutral or with throttle <= 0.1 the gear stays.
AutoUpdateShiftRule ==
    (variant = "automatic" /\ tOp = "update") =>
        LET g == tPrev.currentGear
            eligible == ~tPrev.shifting /\ g >= 1 /\ tArg.throttle > AutoShiftThrottle
            up == eligible /\ tArg.rpm >= ShiftUpRpm /\ g < NumGears
            down == eligible /\ ~up /\ tArg.rpm <= ShiftDownRpm /\ g > 1
        IN /\ up => trans.currentGear = g + 1
           /\ down => trans.currentGear = g - 1
           /\ (~up /\ ~down) => trans.currentGear = g
           /\ (up \/ down) => (trans.shifting /\ trans.shiftTimer = ShiftDelay)
           /\ (~tPrev.shifting /\ ~up /\ ~down) => trans = tPrev

\* an update that shifted down from gear 2 at low rpm under throttle
AutoShiftedDown ==
    /\ variant = "automatic"
    /\ tOp = "update"
    /\ ~tPrev.shifting
    /\ tPrev.currentGear = 2
    /\ tArg.rpm <= ShiftDownRpm
    /\ trans.currentGear = 1
    /\ trans.shifting
    /\ trans.shiftTimer = ShiftDelay

\* C10: automatic variant: during a shift setForward() and setReverse() leave
\* gear, shifting flag and shift timer as they were; when not shifting
\* setReverse() sets gear -1 and setForward() sets gear 1 only if the gear is
\* <= 0, and neither starts a shift delay.
DirectionSelectEffect ==
    (variant = "automatic" /\ tOp \in {"setForward", "setReverse"}) =>
        IF tPrev.shifting
           THEN trans = tPrev
           ELSE /\ tOp = "setReverse" => trans.currentGear = -1
                /\ tOp = "setForward" =>
                      trans.currentGear = IF tPrev.currentGear <= 0 THEN 1
                                          ELSE tPrev.currentGear
                /\ ~trans.shifting
                /\ trans.shiftTimer = tPrev.shiftTimer

\* setReverse() asked in the middle of a shift into a forward gear
SetReverseAskedWhileShifting ==
    /\ variant = "automatic"
    /\ tOp = "setReverse"
    /\ tPrev.shifting
    /\ tPrev.currentGear >= 1
    /\ trans = tPrev
(***************************************************************************)
(*                       Properties of FuelSystem                          *)
(***************************************************************************)
\* C11: under any sequence of update(rpm, torque, dt) calls with dt >= 0 and
\* any rpm and torque the fuel level never increases from one call to the
\* next and always stays within [0, tankCapacity].
FuelNeverIncreases ==
    /\ 0 <= currentFuel /\ currentFuel <= TankCapacity
    /\ fOp = "update" => currentFuel <= fPrev

\* an update with a negative (engine braking) torque that burned fuel
FuelBurnedUnderBraking ==
    /\ fOp = "update"
    /\ fArg.torque < 0
    /\ fArg.rpm > 0
    /\ fArg.dt > 0
    /\ currentFuel < fPrev - IdleConsumption * fArg.dt

\* C13 as stated: refuel() sets the level to tankCapacity from any level and
\* refuel(x) sets it to min(level + x, tankCapacity).
RefuelIsMinOfSum ==
    /\ fOp = "refuelFull" => currentFuel = TankCapacity
    /\ fOp = "refuel" => currentFuel = Min(fPrev + fArg.amount, TankCapacity)

\* C13 amended: refuel() sets the level to tankCapacity from any level and
\* refuel(x) sets it to min(level + x, tankCapacity), but never below 0: for
\* x < -level the level becomes 0.
RefuelIsClampedSum ==
    /\ fOp = "refuelFull" => currentFuel = TankCapacity
    /\ fOp = "refuel" =>
          currentFuel = (IF fPrev + fArg.amount < 0 THEN 0
                         ELSE Min(fPrev + fArg.amount, TankCapacity))

\* a refuel by a negative amount larger than the level, which leaves 0
RefuelFlooredAtZero ==
    /\ fOp = "refuel"
    /\ fPrev > 0
    /\ fPrev + fArg.amount < 0
    /\ currentFuel = 0
(***************************************************************************)
(*                    Properties of EngineSimulation                       *)
(***************************************************************************)
\* C14 as stated: after every update, for any dt >= 0, running or not, the
\* engine speed lies in [0, maxRpm]; immediately after setRunning(true) it
\* is exactly idleRpm.
RpmInRange ==
    /\ sOp = "update" => (0 <= simRpm /\ simRpm <= MaxRpm)
    /\ (sOp = "setRunning" /\ sArg.running) => simRpm = IdleRpm

\* C15: a running engine's update returns the rev limiter's fraction of the
\* curve torque when the stored speed is at or above the redline, whatever
\* the throttle (positive when the curve is); otherwise the negative engine
\* braking torque when throttle < 0.01 and the gear ratio is not 0;
\* otherwise curve torque times throttle. A non-running engine returns 0.
TorqueSelection ==
    sOp = "update" =>
        LET ct == lookupTorque(torqueCurve, simRpm)
        IN  IF ~sPrev.running THEN sTorque = 0
            ELSE IF simRpm >= RedlineRpm
                 THEN /\ sTorque = RevLimited(simVariant, ct)
                      /\ ct >= 20 => sTorque > 0
            ELSE IF sArg.throttle < 1 /\ sArg.gearRatio # 0
                 THEN /\ sTorque = -((EngineBrakingTenths * ct * 3) \div 100)
                      /\ sTorque <= 0
            ELSE sTorque = (ct * sArg.throttle) \div 100

\* a running engine in gear at zero throttle whose update ends at the redline
RevLimiterAtZeroThrottle ==
    /\ sOp = "update"
    /\ sPrev.running
    /\ sArg.throttle = 0
    /\ sArg.gearRatio # 0
    /\ simRpm >= RedlineRpm
    /\ sTorque > 0

\* C16: on a curve with at least two samples of strictly increasing rpm,
\* lookupTorque returns the first sample's torque at or below the first
\* sample's rpm, the last sample's torque at or above the last sample's rpm,
\* and strictly inside the domain the linear blend (rounded down to the unit)
\* of the two samples that bracket the speed, never the fall-through 0.
LookupIsPiecewiseLinear ==
    LET c == torqueCurve
        n == Len(c)
    IN  /\ qRpm <= c[1][1] => qTorque = c[1][2]
        /\ qRpm >= c[n][1] => qTorque = c[n][2]
        /\ (c[1][1] < qRpm /\ qRpm < c[n][1]) =>
              /\ qTorque # 0
              /\ \E i \in 1..(n - 1) :
                    /\ c[i][1] <= qRpm /\ qRpm <= c[i + 1][1]
                    /\ LET w == c[i + 1][1] - c[i][1]
                           exact == c[i][2] * w + (c[i + 1][2] - c[i][2]) * (qRpm - c[i][1])
                       IN  qTorque * w <= exact /\ exact < (qTorque + 1) * w

\* a lookup strictly inside the last segment of a curve of three or more
\* samples whose bracketing torques differ
LookupInsideLastSegment ==
    LET n == Len(torqueCurve)
    IN  /\ n >= 3
        /\ torqueCurve[n - 1][1] < qRpm /\ qRpm < torqueCurve[n][1]
        /\ torqueCurve[n - 1][2] # torqueCurve[n][2]
        /\ qTorque # torqueCurve[n - 1][2] /\ qTorque # torqueCurve[n][2]
(***************************************************************************)
(*                    Properties of VehicleController                      *)
(***************************************************************************)
AllEngineForcesZero == \A i \in 1..4 : wheelEngineForce[i] = 0

\* C12: if the fuel level reaches 0 during the fuel update of a fixed step,
\* then at the end of that step the engine is not running and the engine
\* force set on every wheel in that step is 0.
StallWithinTheStep ==
    (vOp = "fixedUpdate" /\ vStep.ranDry) =>
        /\ ~simRunning
        /\ AllEngineForcesZero

\* a step in gear under throttle, with positive engine torque, that emptied
\* the tank
RanDryUnderPower ==
    /\ vOp = "fixedUpdate"
    /\ vStep.ranDry
    /\ currentFuel = 0
    /\ vStep.gearRatio # 0
    /\ vStep.torque > 0
    /\ ~simRunning

\* C17: in every fixed step the engine force set on the wheels is 0 when the
\* engine is not running at that point of the step or the gear ratio used
\* for the step is 0; otherwise the total drive force is engineTorque *
\* gearRatio * finalDrive * efficiency / wheelRadius, half of it on each rear
\* wheel (indices 2 and 3) and 0 on each front wheel (indices 0 and 1).
DriveForceRule ==
    vOp = "fixedUpdate" =>
        IF ~simRunning \/ vStep.gearRatio = 0
        THEN AllEngineForcesZero
        ELSE LET total == (vStep.torque * vStep.gearRatio * FinalDriveRatio
                           * EfficiencyTenths) \div (10 * WheelRadiusCm)
             IN  /\ wheelEngineForce[1] = 0
                 /\ wheelEngineForce[2] = 0
                 /\ wheelEngineForce[3] = wheelEngineForce[4]
                 /\ 2 * wheelEngineForce[3] <= total
                 /\ total < 2 * wheelEngineForce[3] + 2

\* a step that drove the rear wheels
RearWheelsDriven ==
    /\ vOp = "fixedUpdate"
    /\ simRunning
    /\ vStep.gearRatio # 0
    /\ wheelEngineForce[3] > 0
    /\ wheelEngineForce[4] > 0

\* C18 as stated: after reset(pose), from any reachable vehicle state, the
\* steering angle is 0, the fuel level equals tankCapacity, the engine is
\* running at exactly idleRpm, the transmission is in neutral (gear 0) and
\* not shifting, and the previous and current interpolation poses (which
\* only the manual variant has) both equal the reset pose.
ResetPostcondition ==
    vOp = "reset" =>
        /\ currentSteering = 0
        /\ currentFuel = TankCapacity
        /\ simRunning /\ simRpm = IdleRpm
        /\ trans.currentGear = 0 /\ ~trans.shifting
        /\ variant = "manual" =>
              /\ prevPose = <<vStep.position, IdentityRotation>>
              /\ currPose = <<vStep.position, IdentityRotation>>
(***************************************************************************)
(*              Properties of the chunks' resources and props              *)
(***************************************************************************)
\* C19: after any sequence of updateChunks calls a chunk's mesh is in the
\* scene if and only if its index is in the chunk map, and the prop colliders
\* in the physics world are exactly those of the loaded chunks: every
\* collider of a chunk that has left the window has been removed.
ChunkResourcesReleased ==
    /\ sceneMeshes = chunks
    /\ DOMAIN chunkColliders = chunks
    /\ physicsColliders = UNION {chunkColliders[x] : x \in chunks}
    /\ \A h \in physicsColliders : h[1] \in chunks

\* an update that unloaded chunks whose props had colliders and loaded others
ChunkWithCollidersUnloaded ==
    /\ worldPassed
    /\ lastRemoved # {}
    /\ \A x \in lastRemoved : ChunkHandles(x, TRUE) # {}
    /\ lastLoaded # {}
    /\ physicsColliders # {}

ShiftLastsShiftDelay ==
    /\ [](trans.shifting =>
            /\ sinceShift < ShiftDelay
            /\ trans.shiftTimer = ShiftDelay - sinceShift
            /\ getCurrentGearRatio = 0)
    /\ []((tOp = "update" /\ tPrev.shifting) =>
            /\ trans.shifting <=> (sinceShift < ShiftDelay)
            /\ trans.currentGear = tPrev.currentGear)
    /\ (trans.shifting ~> ~trans.shifting)

\* the automatic transmission ending a shift in the update that brings the sum
\* of dt to shiftDelay, at an rpm and throttle that would shift up otherwise
ShiftEndedByLastUpdate ==
    /\ variant = "automatic"
    /\ tOp = "update"
    /\ tPrev.shifting
    /\ ~trans.shifting
    /\ tArg.dt < ShiftDelay
    /\ sinceShift = ShiftDelay
    /\ tArg.rpm >= ShiftUpRpm
    /\ tArg.throttle > AutoShiftThrottle
    /\ tPrev.currentGear \in 1..(NumGears - 1)
    /\ trans.currentGear = tPrev.currentGear

\* C22: the step drives, and the engine is updated, with the gear ratio read
\* before the transmission's update of the step: in the step whose update ends
\* a shift the ratio is still 0, the engine force on every wheel is 0 and the
\* engine does not brake; in the step whose update starts an automatic shift
\* the ratio is still the old gear's.
RatioReadBeforeTransmissionUpdate ==
    vOp = "fixedUpdate" =>
        /\ vStep.gearRatio = IF vStep.shiftingAtRead THEN 0
                             ELSE IF vStep.gearAtRead = -1 THEN ReverseRatio
                             ELSE RatioOfGear(vStep.gearAtRead)
        /\ (vStep.shiftingAtRead /\ ~trans.shifting) =>
              /\ vStep.gearRatio = 0
              /\ AllEngineForcesZero
              /\ trans.currentGear = vStep.gearAtRead
        /\ (variant = "automatic" /\ ~vStep.shiftingAtRead /\ trans.shifting) =>
              /\ trans.currentGear # vStep.gearAtRead
              /\ vStep.gearRatio = RatioOfGear(vStep.gearAtRead)
              /\ vStep.gearRatio # 0
        /\ vStep.torque < 0 => vStep.gearRatio # 0
        /\ \A i \in 3..4 :
              wheelEngineForce[i] =
                  WheelForce(simRunning, vStep.torque, vStep.gearRatio, FinalDriveRatio) \div 2

\* a step of the automatic vehicle whose update started a shift into the next
\* gear while the old gear's ratio drove the rear wheels
AutoShiftStepDrivesOldGear ==
    /\ vOp = "fixedUpdate"
    /\ variant = "automatic"
    /\ ~vStep.shiftingAtRead
    /\ trans.shifting
    /\ trans.currentGear = vStep.gearAtRead + 1
    /\ vStep.gearRatio = RatioOfGear(vStep.gearAtRead)
    /\ wheelEngineForce[3] > 0

(***************************************************************************)
(*             Properties of Engine: start() and stop() anywhere           *)
(***************************************************************************)
\* C23: under any interleaving of start() and stop(), the calls made from
\* inside a fixed-update or render callback included, at most one host frame
\* request for loop() is pending at any time, the loop body runs at most once
\* per host frame, and after a stop() no callback is started in a later host
\* frame until start() is called again.
OneLoopPerHostFrame ==
    /\ Len(requests) + Len(batch) <= 1
    /\ bodies <= 1
    /\ ~lateCallback

\* C24: the accumulator is never negative, a frame that has run its rounds
\* leaves accumulator = accumulator before + clamped frame delta - rounds *
\* PHYSICS_TIMESTEP, and the simulated time since start() never exceeds the
\* clamped frame time since start().
AccumulatorAccounts ==
    /\ eng.accumulator >= 0
    /\ (calls # <<>> /\ Top.pc = "request") =>
          eng.accumulator = Top.accBefore + Top.frameDt - Top.steps * PHYSICS_TIMESTEP
    /\ lag >= 0

(***************************************************************************)
(*                  Further properties of RoadManager                      *)
(***************************************************************************)
\* C25: after every updateChunks call, for every vehicle position, the one
\* whose closest sample is the last (t = 1) included, currentChunkIndex lies
\* in [0, CHUNK_COUNT), and the loaded chunks are a non-empty contiguous
\* range of at most VISIBLE_BEHIND + VISIBLE_AHEAD + 1 indices.
ActiveIndexInRange ==
    /\ currentChunkIndex \in 0..(CHUNK_COUNT - 1)
    /\ chunks # {}
    /\ \A i, j \in chunks : \A k \in i..j : k \in chunks
    /\ Cardinality(chunks) <= VISIBLE_BEHIND + VISIBLE_AHEAD + 1

\* C27: updateChunks called twice in succession with the same vehicle
\* position constructs and destroys no chunk the second time, and across any
\* update a chunk whose index is in the old and in the new window is kept:
\* it is neither disposed nor constructed again, and its mesh stays in the
\* scene without being added again.
UpdateKeepsLoadedChunks ==
    [][/\ closestSample' = closestSample => (lastRemoved' = {} /\ lastLoaded' = {})
       /\ \A index \in chunks \cap chunks' :
             /\ index \notin lastRemoved'
             /\ index \notin lastLoaded'
             /\ index \in sceneMeshes'
             /\ chunkColliders'[index] = chunkColliders[index]]_vars

\* an update in the middle of the road that found its whole window loaded
UpdateChangedNothing ==
    /\ lastRemoved = {}
    /\ lastLoaded = {}
    /\ closestSample = 50
    /\ Cardinality(chunks) = VISIBLE_BEHIND + VISIBLE_AHEAD + 1

(***************************************************************************)
(*               Further properties of VehicleController                   *)
(***************************************************************************)
\* C26: once the engine is not running because the fuel reached 0, every
\* fixed step, whatever its input, leaves it not running and sets an engine
\* force of 0 on every wheel; only reset() makes it run again.
StalledUntilReset ==
    [][(~simRunning /\ Fuel_isEmpty(currentFuel)) =>
          /\ vOp' = "fixedUpdate" => (~simRunning' /\ AllEngineForcesZero')
          /\ simRunning' => vOp' = "reset"]_vars

\* a fixed step in gear with full throttle and steering input, begun with the
\* engine stalled on an empty tank, that left it stalled with no engine force
StalledStepWithThrottle ==
    /\ vOp = "fixedUpdate"
    /\ ~simRunning
    /\ Fuel_isEmpty(currentFuel)
    /\ ~vStep.ranDry
    /\ currentSteering = MaxSteerAngle
    /\ vStep.gearRatio # 0
    /\ AllEngineForcesZero

\* C28: in the manual variant, a fixed step whose input asks for shiftUp and
\* shiftDown while no shift is in progress changes the gear by exactly one:
\* by +1 (shiftUp applied, shiftDown ignored) below the highest gear, by -1
\* (shiftDown applied) in the highest gear; the requests never cancel and
\* never move the gear by two.
BothShiftsMoveOneGear ==
    (vOp = "fixedUpdate" /\ variant = "manual" /\ vStep.bothShifts
       /\ ~vStep.shiftingBefore) =>
        /\ trans.currentGear =
              vStep.gearBefore + (IF vStep.gearBefore < NumGears THEN 1 ELSE -1)
        /\ vStep.gearAtRead = trans.currentGear
        /\ vStep.shiftingAtRead

\* such a step below the highest gear, and forward of neutral, went up
BothShiftsWentUp ==
    /\ vOp = "fixedUpdate"
    /\ variant = "manual"
    /\ vStep.bothShifts
    /\ ~vStep.shiftingBefore
    /\ vStep.gearBefore \in 1..(NumGears - 1)
    /\ trans.currentGear = vStep.gearBefore + 1

(***************************************************************************)
(*                  Further properties of RoadsideProps                    *)
(***************************************************************************)
\* C30: for every chunk index in [0, CHUNK_COUNT) the generator seeded with
\* floor(tStart * 10000) never reaches the state 0 (a state that is 0 stays
\* 0, so the state left by the construction tells), every value it returns
\* is strictly between 0 and 1, successive values are not all equal, and
\* distinct chunk indices get distinct seeds.
GeneratorNeverZero ==
    /\ PropSeed(genIndex, rngAfter) # 0
    /\ rngAfter \in 1..(LehmerModulus - 1)
    /\ NextRng(rngAfter) # rngAfter
    /\ \A i, j \in 0..(CHUNK_COUNT - 1) :
          i # j => PropSeed(i, rngAfter) # PropSeed(j, rngAfter)

(***************************************************************************)
(*                      Properties of InputManager                         *)
(***************************************************************************)
\* C29: after a single key-down of a shift key, with no key-up of it and no
\* blur since, whatever auto-repeat events arrive while it is held, the
\* input of that key is true in the first fixed step run after the key-down
\* and false in every later one, however the fixed steps fall into frames:
\* the press is neither lost nor delivered twice.
PressDeliveredOnce ==
    press.single => \A i \in 1..Len(press.seen) : press.seen[i] = (i = 1)

\* a held, repeating key whose press waited through a frame without a fixed
\* step and was then seen by the first of several fixed steps of one frame
PressSeenAfterEmptyFrame ==
    /\ press.single
    /\ press.skipped
    /\ press.code \in held
    /\ press.seen = <<TRUE, FALSE>>
    /\ frame.phase = "fixed"
====
